---- MODULE Spec2Model ----
(***************************************************************************)
(* canvas3d: vectors and matrices (Vec, Mat), the persistent Path3D        *)
(* builder, the Shape model, the Drawing tree and its render interpreter.  *)
(*                                                                         *)
(* Numbers are JavaScript numbers.  A number is a record [k, v]: k = "fin" *)
(* carries the integer v, k = "inf" carries the sign v, k = "nan" is NaN   *)
(* and k = "undefined" is the value of an out-of-range array read.         *)
(* Arrays are sequences; the code's 0-based index i is the sequence's      *)
(* index i + 1.                                                            *)
(***************************************************************************)
EXTENDS Integers, Sequences, FiniteSets, TLC

VARIABLES
    path,      \* Path3D: the value returned by the last builder call
    prev,      \* Path3D: the argument of the last builder call
    op,        \* the last builder call: [name, point]
    calls,     \* number of builder calls made so far
    seed,      \* Path3D: the value the builder calls started from
    drawing,   \* the Drawing handed to render
    stack,     \* render: the effects still to run, head first
    cmds,      \* the commands the Renderer has received, in order
    ctx,       \* the Renderer's current style state
    saved,     \* the Renderer's stack of saved style states
    leaves,    \* render: the Fill/Outline leaves begun so far, in order
    operands,  \* the arguments a Vec, Mat or monoid function is called with
    applied,   \* the name of the function last called on the operands
    result,    \* the outcome of that call
    heap,      \* Path3D: the arrays allocated so far, by address
    made,      \* Path3D: the values handed out so far, as they were then
    error      \* render: what the Renderer threw, if it did

vars ==
    <<path, prev, op, calls, seed, drawing, stack, cmds, ctx, saved, leaves,
      operands, applied, result, heap, made, error>>

pathVars == <<path, prev, op, calls, seed, heap, made>>

renderVars == <<drawing, stack, cmds, ctx, saved, leaves, error>>

callVars == <<operands, applied, result>>

-----------------------------------------------------------------------------
(* JavaScript numbers *)

N(i) == [k |-> "fin", v |-> i]

NaN == [k |-> "nan", v |-> 0]

Infinity == [k |-> "inf", v |-> 1]

NegInfinity == [k |-> "inf", v |-> -1]

Undefined == [k |-> "undefined", v |-> 0]

isFinite(x) == x.k = "fin"

Sign(i) == IF i > 0 THEN 1 ELSE IF i < 0 THEN -1 ELSE 0

\* a * b
numMul(a, b) ==
    IF a.k \in {"nan", "undefined"} \/ b.k \in {"nan", "undefined"} THEN NaN
    ELSE IF a.k = "fin" /\ b.k = "fin" THEN N(a.v * b.v)
    ELSE IF Sign(a.v) * Sign(b.v) = 0 THEN NaN
    ELSE [k |-> "inf", v |-> Sign(a.v) * Sign(b.v)]

\* a + b
numAdd(a, b) ==
    IF a.k \in {"nan", "undefined"} \/ b.k \in {"nan", "undefined"} THEN NaN
    ELSE IF a.k = "fin" /\ b.k = "fin" THEN N(a.v + b.v)
    ELSE IF a.k = "inf" /\ b.k = "inf" THEN (IF a.v = b.v THEN a ELSE NaN)
    ELSE IF a.k = "inf" THEN a ELSE b

\* -a
numNeg(a) ==
    IF a.k \in {"nan", "undefined"} THEN NaN ELSE [k |-> a.k, v |-> 0 - a.v]

\* a === b
strictEq(a, b) == a.k # "nan" /\ b.k # "nan" /\ a = b

Min(a, b) == IF a <= b THEN a ELSE b

-----------------------------------------------------------------------------
(* Vec *)

\* at(i)(v) = v[i]
at(i, v) == IF i + 1 \in DOMAIN v THEN v[i + 1] ELSE Undefined

RECURSIVE reduceAdd(_, _)
\* RNEA.reduce(b, numberField.add): a left fold
reduceAdd(b, as) ==
    IF as = <<>> THEN b ELSE reduceAdd(numAdd(b, Head(as)), Tail(as))

\* RNEA.zipWith(fa, fb, numberField.mul): as long as the shorter argument
zipWithMul(fa, fb) ==
    [i \in 1..Min(Len(fa), Len(fb)) |-> numMul(fa[i], fb[i])]

\* dot(fb)(fa)
dot(fb, fa) == reduceAdd(N(0), zipWithMul(fa, fb))

-----------------------------------------------------------------------------
(* Mat *)

\* Math.cos((deg * Math.PI) / 180.0), for the whole multiples of 90 degrees
\* (taken as the exact values 1, 0, -1, 0)
cos(deg) ==
    CASE deg.v % 360 = 0 -> N(1)
      [] deg.v % 360 = 90 -> N(0)
      [] deg.v % 360 = 180 -> N(-1)
      [] deg.v % 360 = 270 -> N(0)

\* Math.sin((deg * Math.PI) / 180.0), likewise
sin(deg) ==
    CASE deg.v % 360 = 0 -> N(0)
      [] deg.v % 360 = 90 -> N(1)
      [] deg.v % 360 = 180 -> N(0)
      [] deg.v % 360 = 270 -> N(-1)

\* row(n)(as): the n-th component of every element of as
row(n, as) == [r \in 1..Len(as) |-> at(n, as[r])]

\* faulty variant: as many rows as fa has, right for square matrices only
transpose_square(fa) == [i \in 1..Len(fa) |-> row(i - 1, fa)]

\* one row per index of the first row of fa
transpose(fa) == [i \in 1..Len(fa[1]) |-> row(i - 1, fa)]

Mat_translate(v) ==
    << <<N(1), N(0), N(0), N(0)>>,
       <<N(0), N(1), N(0), N(0)>>,
       <<N(0), N(0), N(1), N(0)>>,
       <<at(0, v), at(1, v), at(2, v), N(1)>> >>

Mat_scale(v) ==
    << <<at(0, v), N(0), N(0), N(0)>>,
       <<N(0), at(1, v), N(0), N(0)>>,
       <<N(0), N(0), at(2, v), N(0)>>,
       <<N(0), N(0), N(0), N(1)>> >>

rotateX(a) ==
    << <<N(1), N(0), N(0), N(0)>>,
       <<N(0), cos(a), sin(a), N(0)>>,
       <<N(0), numNeg(sin(a)), cos(a), N(0)>>,
       <<N(0), N(0), N(0), N(1)>> >>

rotateY(a) ==
    << <<cos(a), N(0), numNeg(sin(a)), N(0)>>,
       <<N(0), N(1), N(0), N(0)>>,
       <<sin(a), N(0), cos(a), N(0)>>,
       <<N(0), N(0), N(0), N(1)>> >>

rotateZ(a) ==
    << <<cos(a), sin(a), N(0), N(0)>>,
       <<numNeg(sin(a)), cos(a), N(0), N(0)>>,
       <<N(0), N(0), N(0), N(0)>>,
       <<N(0), N(0), N(0), N(1)>> >>

\* faulty variant: y is not transposed, rows of x meet rows of y
concat_rowsByRows(x, y) ==
    [i \in 1..Len(x) |-> [j \in 1..Len(y) |-> dot(y[j], x[i])]]

\* semigroupMat.concat(x, y): entry (i, j) is dot(column j of y)(row i of x)
concat(x, y) ==
    LET fab == transpose(y)
    IN  [i \in 1..Len(x) |-> [j \in 1..Len(fab) |-> dot(fab[j], x[i])]]

\* faulty variant: the argument passed first is the left operand
mul_swapped(fb, fa) == concat(fb, fa)

\* mul(fb)(fa)
mul(fb, fa) == concat(fa, fb)

identity ==
    << <<N(1), N(0), N(0), N(0)>>,
       <<N(0), N(1), N(0), N(0)>>,
       <<N(0), N(0), N(1), N(0)>>,
       <<N(0), N(0), N(0), N(1)>> >>

RECURSIVE concatAll(_)
\* concatAll_(monoidMat): a left fold of concat that starts from monoidMat.empty
concatAll(as) ==
    IF as = <<>> THEN identity
    ELSE concat(concatAll(SubSeq(as, 1, Len(as) - 1)), as[Len(as)])

-----------------------------------------------------------------------------
(* Path3D *)

isPointFinite(point) ==
    isFinite(at(0, point)) /\ isFinite(at(1, point)) /\ isFinite(at(2, point))

\* faulty variant: no finiteness check in moveTo
moveTo_unchecked(point, p) == Append(p, <<point>>)

\* faulty variant: a moveTo after a lone point moves that point instead of opening a subpath
moveTo_merge(point, p) ==
    IF isPointFinite(point)
    THEN IF p # <<>> /\ Len(p[Len(p)]) = 1
         THEN [p EXCEPT ![Len(p)] = <<point>>]
         ELSE Append(p, <<point>>)
    ELSE p

moveTo(point, p) ==
    IF isPointFinite(point) THEN Append(p, <<point>>) ELSE p

\* faulty variant: no finiteness check
lineTo_unchecked(point, p) ==
    IF p # <<>>
    THEN [p EXCEPT ![Len(p)] = Append(@, point)]
    ELSE Append(p, <<point>>)

\* faulty variant: a point offered to the empty path is dropped, no subpath is opened
lineTo_noStart(point, p) ==
    IF isPointFinite(point) /\ p # <<>>
    THEN [p EXCEPT ![Len(p)] = Append(@, point)]
    ELSE p

lineTo(point, p) ==
    IF isPointFinite(point)
    THEN IF p # <<>>
         THEN [p EXCEPT ![Len(p)] = Append(@, point)]
         ELSE moveTo(point, p)
    ELSE p

\* faulty variant: the closing point is appended, the trailing subpath is not
closePath_noTrailing(p) ==
    IF p = <<>> THEN p
    ELSE LET cur == p[Len(p)] IN
         IF ~(cur # <<>> /\ Len(cur) > 1) THEN p
         ELSE LET end == cur[Len(cur)]
                  start == cur[1]
              IN IF /\ strictEq(at(0, end), at(0, start))
                    /\ strictEq(at(1, end), at(1, start))
                    /\ strictEq(at(2, end), at(2, start))
                 THEN p
                 ELSE [p EXCEPT ![Len(p)] = Append(cur, start)]

\* faulty variant: no check that both ends are the same point
closePath_always(p) ==
    IF p = <<>> THEN p
    ELSE LET cur == p[Len(p)] IN
         IF ~(cur # <<>> /\ Len(cur) > 1) THEN p
         ELSE Append([p EXCEPT ![Len(p)] = Append(cur, cur[1])], <<cur[1]>>)

closePath(p) ==
    IF p = <<>> THEN p
    ELSE LET cur == p[Len(p)] IN
         IF ~(cur # <<>> /\ Len(cur) > 1) THEN p
         ELSE LET end == cur[Len(cur)]
                  start == cur[1]
              IN IF /\ strictEq(at(0, end), at(0, start))
                    /\ strictEq(at(1, end), at(1, start))
                    /\ strictEq(at(2, end), at(2, start))
                 THEN p
                 ELSE Append([p EXCEPT ![Len(p)] = Append(cur, start)], <<start>>)

-----------------------------------------------------------------------------
(* Path3D on the heap: every array is an object with an address; a Path3D   *)
(* is an array of the addresses of its subpath arrays.                      *)

\* an array of subpath addresses, an array of points
PathArray(items) == [k |-> "path", items |-> items]

SubPathArray(items) == [k |-> "subpath", items |-> items]

\* a new array: the heap that holds it and its address
alloc(h, arr) == [heap |-> Append(h, arr), ref |-> Len(h) + 1]

\* the Path3D value at address p
Deref(h, p) == [i \in 1..Len(h[p].items) |-> h[h[p].items[i]].items]

\* all but the last element
initOf(as) == SubSeq(as, 1, Len(as) - 1)

\* moveTo(point)(path): RA.snoc(path, [point]) copies path
heapMoveTo(point, p, h) ==
    IF isPointFinite(point)
    THEN LET a == alloc(h, SubPathArray(<<point>>))
         IN  alloc(a.heap, PathArray(Append(h[p].items, a.ref)))
    ELSE [heap |-> h, ref |-> p]

\* faulty variant: the point is pushed onto the last subpath array itself
heapLineTo_push(point, p, h) ==
    IF isPointFinite(point)
    THEN IF h[p].items # <<>>
         THEN LET cur == h[p].items[Len(h[p].items)]
              IN  [heap |-> [h EXCEPT ![cur] = SubPathArray(Append(h[cur].items, point))],
                   ref |-> p]
         ELSE heapMoveTo(point, p, h)
    ELSE [heap |-> h, ref |-> p]

\* lineTo(point)(path): NEA.modifyLast and RA.append both copy
heapLineTo(point, p, h) ==
    IF isPointFinite(point)
    THEN IF h[p].items # <<>>
         THEN LET cur == h[p].items[Len(h[p].items)]
                  a == alloc(h, SubPathArray(Append(h[cur].items, point)))
              IN  alloc(a.heap, PathArray(Append(initOf(h[p].items), a.ref)))
         ELSE heapMoveTo(point, p, h)
    ELSE [heap |-> h, ref |-> p]

\* faulty variant: the closing point is appended, no subpath [start] follows
heapClosePath_noTrailing(p, h) ==
    IF h[p].items = <<>> THEN [heap |-> h, ref |-> p]
    ELSE LET cur == h[h[p].items[Len(h[p].items)]].items IN
         IF ~(cur # <<>> /\ Len(cur) > 1) THEN [heap |-> h, ref |-> p]
         ELSE LET end == cur[Len(cur)]
                  start == cur[1]
              IN IF /\ strictEq(at(0, end), at(0, start))
                    /\ strictEq(at(1, end), at(1, start))
                    /\ strictEq(at(2, end), at(2, start))
                 THEN [heap |-> h, ref |-> p]
                 ELSE LET a == alloc(h, SubPathArray(Append(cur, start)))
                      IN  alloc(a.heap, PathArray(Append(initOf(h[p].items), a.ref)))

\* closePath(path): RA.snoc(cur, start), NEA.updateLast and NEA.snoc all copy
heapClosePath(p, h) ==
    IF h[p].items = <<>> THEN [heap |-> h, ref |-> p]
    ELSE LET cur == h[h[p].items[Len(h[p].items)]].items IN
         IF ~(cur # <<>> /\ Len(cur) > 1) THEN [heap |-> h, ref |-> p]
         ELSE LET end == cur[Len(cur)]
                  start == cur[1]
              IN IF /\ strictEq(at(0, end), at(0, start))
                    /\ strictEq(at(1, end), at(1, start))
                    /\ strictEq(at(2, end), at(2, start))
                 THEN [heap |-> h, ref |-> p]
                 ELSE LET a == alloc(h, SubPathArray(Append(cur, start)))
                          b == alloc(a.heap, PathArray(Append(initOf(h[p].items), a.ref)))
                          c == alloc(b.heap, SubPathArray(<<start>>))
                      IN  alloc(c.heap, PathArray(Append(b.heap[b.ref].items, c.ref)))

RECURSIVE literal(_, _)
\* the heap after the array literal q was built on h; its address is the last
literal(h, q) ==
    IF q = <<>> THEN alloc(h, PathArray(<<>>))
    ELSE LET r == literal(h, initOf(q))
             a == alloc(r.heap, SubPathArray(q[Len(q)]))
         IN  alloc(a.heap, PathArray(Append(r.heap[r.ref].items, a.ref)))

-----------------------------------------------------------------------------
(* Shape *)

degrees(n) == [_tag |-> "Degrees", degrees |-> n]

point(x, y, z) == <<x, y, z>>

angle(a) == a.degrees

composite(shapes) == [_tag |-> "Composite", shapes |-> shapes]

Path(isClosed, points) == [_tag |-> "Path", closed |-> isClosed, points |-> points]

\* monoidPath.empty: closed is MonoidAny.empty, points the empty array
monoidPath_empty == Path(FALSE, <<>>)

RECURSIVE foldPoints(_, _)
\* F.reduce(fa, monoidPath.empty, (b, a) => Path(isClosed, append(a)(b.points)))
foldPoints(isClosed, fa) ==
    IF fa = <<>> THEN monoidPath_empty
    ELSE LET b == foldPoints(isClosed, SubSeq(fa, 1, Len(fa) - 1))
         IN  Path(isClosed, Append(b.points, fa[Len(fa)]))

\* path(F)(fa), F the Foldable of arrays
Shape_path(fa) == foldPoints(FALSE, fa)

\* closed(F)(fa)
Shape_closed(fa) == foldPoints(TRUE, fa)

-----------------------------------------------------------------------------
(* Path3D builder calls *)

MaxCalls == 4

FinitePoints ==
    { <<N(0), N(0), N(0)>>, <<N(1), N(0), N(0)>>,
      <<N(0), N(1), N(0)>>, <<N(0), N(0), N(1)>> }

NonFinitePoints ==
    { <<NaN, N(0), N(0)>>, <<N(0), Infinity, N(0)>>, <<N(0), N(0), NegInfinity>> }

Points == FinitePoints \cup NonFinitePoints

\* the Path3D values a caller starts from: the empty path, a literal with an
\* empty subpath, a literal holding a non-finite point
SeedPaths ==
    { <<>>, << <<>> >>, << << <<NaN, N(0), N(0)>>, <<N(1), N(0), N(0)>> >> >> }

NoCall == [name |-> "none", point |-> <<>>]

\* no function has been called
NoOperands == [kind |-> "none", v |-> <<>>]

NoResult == [k |-> "none", value |-> <<>>]

\* the Renderer has thrown nothing
NoError == [k |-> "none"]

DoMoveTo(pt) ==
    /\ calls < MaxCalls
    /\ prev' = path
    /\ path' = moveTo(pt, path)
    /\ op' = [name |-> "moveTo", point |-> pt]
    /\ calls' = calls + 1
    /\ UNCHANGED <<seed, heap, made, renderVars, callVars>>

DoLineTo(pt) ==
    /\ calls < MaxCalls
    /\ prev' = path
    /\ path' = lineTo(pt, path)
    /\ op' = [name |-> "lineTo", point |-> pt]
    /\ calls' = calls + 1
    /\ UNCHANGED <<seed, heap, made, renderVars, callVars>>

DoClosePath ==
    /\ calls < MaxCalls
    /\ prev' = path
    /\ path' = closePath(path)
    /\ op' = [name |-> "closePath", point |-> <<>>]
    /\ calls' = calls + 1
    /\ UNCHANGED <<seed, heap, made, renderVars, callVars>>

-----------------------------------------------------------------------------
(* Color, Option *)

RED == "red"

BLUE == "blue"

\* Color.toCss: a css string for each colour
toCss(c) ==
    CASE c = RED -> "#ff0000"
      [] c = BLUE -> "#0000ff"

none == [_tag |-> "None"]

some(a) == [_tag |-> "Some", value |-> a]

-----------------------------------------------------------------------------
(* Drawing *)

translate(translateX, translateY, translateZ, d) ==
    [_tag |-> "Translate", translateX |-> translateX, translateY |-> translateY,
     translateZ |-> translateZ, drawing |-> d]

rotate(rx, ry, rz, d) ==
    [_tag |-> "Rotate", rotateX |-> rx, rotateY |-> ry, rotateZ |-> rz, drawing |-> d]

scale(scaleX, scaleY, scaleZ, d) ==
    [_tag |-> "Scale", scaleX |-> scaleX, scaleY |-> scaleY, scaleZ |-> scaleZ,
     drawing |-> d]

many(drawings) == [_tag |-> "Many", drawings |-> drawings]

fill(shape, style) == [_tag |-> "Fill", shape |-> shape, style |-> style]

outline(shape, style) == [_tag |-> "Outline", shape |-> shape, style |-> style]

FillStyle(color) == [color |-> color]

OutlineStyle(color, lineWidth) == [color |-> color, lineWidth |-> lineWidth]

\* RA.getMonoid<Drawing>().concat
readonlyArrayMonoidDrawing_concat(x, y) == x \o y

\* RA.getMonoid<Drawing>().empty
readonlyArrayMonoidDrawing_empty == <<>>

RECURSIVE concatAllDrawings(_)
\* M.concatAll(readonlyArrayMonoidDrawing): a left fold that starts from empty
concatAllDrawings(as) ==
    IF as = <<>> THEN readonlyArrayMonoidDrawing_empty
    ELSE readonlyArrayMonoidDrawing_concat(concatAllDrawings(SubSeq(as, 1, Len(as) - 1)),
                                           as[Len(as)])

\* faulty variant: a non-Many right operand goes in front of the children
monoidDrawing_concat_prepend(x, y) ==
    IF x._tag = "Many" /\ y._tag = "Many"
    THEN many(concatAllDrawings(<<x.drawings, y.drawings>>))
    ELSE IF x._tag = "Many"
    THEN many(concatAllDrawings(<< <<y>>, x.drawings >>))
    ELSE IF y._tag = "Many"
    THEN many(concatAllDrawings(<< <<x>>, y.drawings >>))
    ELSE many(<<x, y>>)

\* faulty variant: a Many left operand is kept whole next to a non-Many one
monoidDrawing_concat_wrap(x, y) ==
    IF x._tag = "Many" /\ y._tag = "Many"
    THEN many(concatAllDrawings(<<x.drawings, y.drawings>>))
    ELSE IF y._tag = "Many"
    THEN many(concatAllDrawings(<< <<x>>, y.drawings >>))
    ELSE many(<<x, y>>)

\* monoidDrawing.concat(x, y)
monoidDrawing_concat(x, y) ==
    IF x._tag = "Many" /\ y._tag = "Many"
    THEN many(concatAllDrawings(<<x.drawings, y.drawings>>))
    ELSE IF x._tag = "Many"
    THEN many(concatAllDrawings(<< x.drawings, <<y>> >>))
    ELSE IF y._tag = "Many"
    THEN many(concatAllDrawings(<< <<x>>, y.drawings >>))
    ELSE many(<<x, y>>)

\* monoidDrawing.empty
monoidDrawing_empty == many(readonlyArrayMonoidDrawing_empty)

\* first().concat
first_concat(x, y) == x

\* faulty variant: the right operand's value is taken when both are present
getFirstMonoid_concat_last(x, y) ==
    IF x._tag = "None" THEN y
    ELSE IF y._tag = "None" THEN x
    ELSE some(y.value)

\* O.getMonoid(first()).concat, for Color and for number
getFirstMonoid_concat(x, y) ==
    IF x._tag = "None" THEN y
    ELSE IF y._tag = "None" THEN x
    ELSE some(first_concat(x.value, y.value))

\* O.getMonoid(first()).empty
getFirstMonoid_empty == none

\* monoidFillStyle.concat(x, y)
monoidFillStyle_concat(x, y) == [color |-> getFirstMonoid_concat(x.color, y.color)]

\* monoidFillStyle.empty
monoidFillStyle_empty == [color |-> getFirstMonoid_empty]

\* monoidOutlineStyle.concat(x, y)
monoidOutlineStyle_concat(x, y) ==
    [color |-> getFirstMonoid_concat(x.color, y.color),
     lineWidth |-> getFirstMonoid_concat(x.lineWidth, y.lineWidth)]

\* monoidOutlineStyle.empty
monoidOutlineStyle_empty == [color |-> getFirstMonoid_empty, lineWidth |-> getFirstMonoid_empty]

\* Array.prototype.slice(0, -1)
sliceInit(p) == IF p = <<>> THEN <<>> ELSE SubSeq(p, 1, Len(p) - 1)

RECURSIVE reduceLineTo(_, _)
\* RA.reduce(b, (a, f) => f(a)) over tail.map(lineTo)
reduceLineTo(b, tail) ==
    IF tail = <<>> THEN b ELSE reduceLineTo(lineTo(Head(tail), b), Tail(tail))

\* faulty variant: the result of closePath is used whole
renderPath_noSlice(shape) ==
    IF shape.points = <<>> THEN <<>>
    ELSE LET p == reduceLineTo(moveTo(Head(shape.points), <<>>), Tail(shape.points))
         IN  IF shape.closed THEN closePath(p) ELSE p

\* renderShape, case 'Path'
renderPath(shape) ==
    IF shape.points = <<>> THEN <<>>
    ELSE LET p == reduceLineTo(moveTo(Head(shape.points), <<>>), Tail(shape.points))
         IN  IF shape.closed THEN sliceInit(closePath(p)) ELSE p

RECURSIVE renderShape(_)
RECURSIVE reduceShapes(_, _)
\* renderShape, case 'Composite': RA.Foldable.reduce(shapes, [], b.concat(renderShape(a)))
reduceShapes(b, shapes) ==
    IF shapes = <<>> THEN b
    ELSE reduceShapes(b \o renderShape(Head(shapes)), Tail(shapes))

renderShape(shape) ==
    IF shape._tag = "Composite" THEN reduceShapes(<<>>, shape.shapes)
    ELSE renderPath(shape)

\* faulty variant: an oblique projection, the depth is added to x
VT_oblique ==
    << <<N(1), N(0), N(0), N(0)>>,
       <<N(0), N(1), N(0), N(0)>>,
       <<N(1), N(0), N(0), N(0)>>,
       <<N(0), N(0), N(0), N(1)>> >>

\* Hardcoded parallel projection matrix
VT ==
    << <<N(1), N(0), N(0), N(0)>>,
       <<N(0), N(1), N(0), N(0)>>,
       <<N(0), N(0), N(0), N(0)>>,
       <<N(0), N(0), N(0), N(1)>> >>

\* a Renderer command
Cmd(name, args) == [op |-> name, args |-> args]

C_save == Cmd("save", <<>>)

C_restore == Cmd("restore", <<>>)

C_beginPath == Cmd("beginPath", <<>>)

C_fill == Cmd("fill", <<>>)

C_stroke == Cmd("stroke", <<>>)

C_moveTo(p) == Cmd("moveTo", <<at(0, p), at(1, p)>>)

C_lineTo(p) == Cmd("lineTo", <<at(0, p), at(1, p)>>)

C_setFillStyle(style) == Cmd("setFillStyle", <<style>>)

C_setStrokeStyle(style) == Cmd("setStrokeStyle", <<style>>)

C_setLineWidth(w) == Cmd("setLineWidth", <<w>>)

\* an effect still to run: a Renderer command
Io(c) == [k |-> "io", c |-> c]

\* an effect still to run: go(t)(d); pos is the place of d in the tree
Go(t, d, pos) == [k |-> "go", t |-> t, d |-> d, pos |-> pos]

\* an effect still to run: traverse(toCoords(shape, t), renderSubPath)
Coords(shape, t) == [k |-> "toCoords", shape |-> shape, t |-> t]

\* faulty variant: a subpath that ends where it starts is ended by closePath
renderSubPath_closePath(subPath) ==
    IF subPath = <<>> THEN <<>>
    ELSE <<Io(C_moveTo(Head(subPath)))>>
         \o [i \in 1..(Len(subPath) - 1) |->
                IF i + 1 = Len(subPath) /\ subPath[i + 1] = Head(subPath)
                THEN Io(Cmd("closePath", <<>>))
                ELSE Io(C_lineTo(subPath[i + 1]))]

\* renderSubPath: moveTo the head, lineTo each point of the tail
renderSubPath(subPath) ==
    IF subPath = <<>> THEN <<>>
    ELSE <<Io(C_moveTo(Head(subPath)))>>
         \o [i \in 1..(Len(subPath) - 1) |-> Io(C_lineTo(subPath[i + 1]))]

\* RA.map(RNEA.map(RA.append(1)))
appendOne(subPath) == [i \in 1..Len(subPath) |-> Append(subPath[i], N(1))]

nonEmpty(subPath) == subPath # <<>>

toCoords(shape, transform) ==
    LET compact == SelectSeq(renderShape(shape), nonEmpty)
    IN  [i \in 1..Len(compact) |-> mul(VT, mul(transform, appendOne(compact[i])))]

RECURSIVE flatten(_)
\* the effects of a traverse, in order
flatten(ss) == IF ss = <<>> THEN <<>> ELSE Head(ss) \o flatten(Tail(ss))

\* the Render that the function f of applyStyle makes of a
styleRender(f, a) ==
    CASE f = "setStrokeStyle" -> C_setStrokeStyle(toCss(a))
      [] f = "setFillStyle" -> C_setFillStyle(toCss(a))
      [] f = "setLineWidth" -> C_setLineWidth(a)

\* applyStyle(fa, f): nothing for none, f(a) for some(a)
applyStyle(fa, f) == IF fa._tag = "None" THEN <<>> ELSE <<Io(styleRender(f, fa.value))>>

\* faulty variant: the context is saved and never restored
withContext_noRestore(f) == <<Io(C_save)>> \o f

\* C.withContext(f): save, f, restore
withContext(f) == <<Io(C_save)>> \o f \o <<Io(C_restore)>>

\* faulty variant: the line width is applied before the stroke colour
goOutline_widthFirst(t, d) ==
    withContext(applyStyle(d.style.lineWidth, "setLineWidth")
                \o applyStyle(d.style.color, "setStrokeStyle")
                \o <<Io(C_beginPath), Coords(d.shape, t), Io(C_stroke)>>)

\* go, case 'Outline'
goOutline(t, d) ==
    withContext(applyStyle(d.style.color, "setStrokeStyle")
                \o applyStyle(d.style.lineWidth, "setLineWidth")
                \o <<Io(C_beginPath), Coords(d.shape, t), Io(C_stroke)>>)

\* go, case 'Fill'
goFill(t, d) ==
    withContext(applyStyle(d.style.color, "setFillStyle")
                \o <<Io(C_beginPath), Coords(d.shape, t), Io(C_fill)>>)

\* go, case 'Scale'
goScale(t, d) == mul(Mat_scale(<<d.scaleX, d.scaleY, d.scaleZ>>), t)

\* faulty variant: the translation is the left operand of the product
goTranslate_left(t, d) == mul(t, Mat_translate(<<d.translateX, d.translateY, d.translateZ>>))

\* go, case 'Translate'
goTranslate(t, d) == mul(Mat_translate(<<d.translateX, d.translateY, d.translateZ>>), t)

\* faulty variant: the three rotations are appended on the right, as Translate and Scale are
goRotate_right(t, d) ==
    mul(rotateZ(angle(d.rotateZ)),
        mul(rotateX(angle(d.rotateX)), mul(rotateY(angle(d.rotateY)), t)))

\* faulty variant: rotateZ is the left operand of its product with t
goRotate_zLeft(t, d) ==
    concat(mul(rotateX(angle(d.rotateX)), rotateY(angle(d.rotateY))),
           mul(t, rotateZ(angle(d.rotateZ))))

\* go, case 'Rotate'
goRotate(t, d) ==
    concat(mul(rotateX(angle(d.rotateX)), rotateY(angle(d.rotateY))),
           mul(rotateZ(angle(d.rotateZ)), t))

\* faulty variant: a child is reached with the transform its elder sibling built
goMany_leak(t, d, pos) ==
    [i \in 1..Len(d.drawings) |->
        Go(IF i = 1 THEN t
           ELSE LET e == d.drawings[i - 1]
                IN  CASE e._tag = "Translate" -> goTranslate(t, e)
                      [] e._tag = "Scale" -> goScale(t, e)
                      [] e._tag = "Rotate" -> goRotate(t, e)
                      [] OTHER -> t,
           d.drawings[i], Append(pos, i))]

\* faulty variant: the children are rendered last to first
goMany_reversed(t, d, pos) ==
    [i \in 1..Len(d.drawings) |->
        Go(t, d.drawings[Len(d.drawings) + 1 - i], Append(pos, Len(d.drawings) + 1 - i))]

\* go, case 'Many': traverse(d.drawings, go(t))
goMany(t, d, pos) ==
    [i \in 1..Len(d.drawings) |-> Go(t, d.drawings[i], Append(pos, i))]

-----------------------------------------------------------------------------
(* The Renderer: a 2D context whose save and restore push and pop its style *)

DefaultCtx == [fillStyle |-> "#000000", strokeStyle |-> "#000000", lineWidth |-> N(1)]

ctxStyle(c, cur) ==
    CASE c.op = "setFillStyle" -> [cur EXCEPT !.fillStyle = c.args[1]]
      [] c.op = "setStrokeStyle" -> [cur EXCEPT !.strokeStyle = c.args[1]]
      [] c.op = "setLineWidth" -> [cur EXCEPT !.lineWidth = c.args[1]]
      [] c.op = "restore" /\ saved # <<>> -> saved[Len(saved)]
      [] OTHER -> cur

ctxSaved(c, cur) ==
    CASE c.op = "save" -> Append(saved, cur)
      [] c.op = "restore" -> sliceInit(saved)
      [] OTHER -> saved

-----------------------------------------------------------------------------
(* The drawings handed to render *)

MaxPathLen == 2

MaxDepth == 2

MaxMany == 2

SeqsUpTo(S, n) == UNION { [1..k -> S] : k \in 0..n }

ShapePoints ==
    { point(N(0), N(0), N(0)), point(N(1), N(0), N(0)), point(N(1), N(2), N(3)),
      point(N(0), NaN, N(0)) }

Square ==
    Path(TRUE, <<point(N(0), N(0), N(0)), point(N(1), N(0), N(0)),
                 point(N(1), N(1), N(0)), point(N(0), N(1), N(0))>>)

Segment == Path(FALSE, <<point(N(1), N(2), N(3)), point(N(2), N(0), N(1))>>)

\* an open path with a non-finite point between two finite ones
Gapped ==
    Path(FALSE, <<point(N(1), N(2), N(3)), point(N(0), NaN, N(0)), point(N(1), N(0), N(0))>>)

\* an open path whose first point is non-finite
LateStart ==
    Path(FALSE, <<point(Infinity, N(0), N(0)), point(N(1), N(2), N(3)), point(N(1), N(0), N(0))>>)

PathShapes ==
    { Path(c, pts) : c \in BOOLEAN, pts \in SeqsUpTo(ShapePoints, MaxPathLen) }

Shapes ==
    PathShapes \cup
    { Square, Segment, Gapped, LateStart, composite(<<>>), composite(<<Square, Segment>>),
      composite(<<composite(<<Segment>>), Path(TRUE, <<>>), Square>>) }

FillStyles == { FillStyle(c) : c \in {none, some(RED)} }

OutlineStyles ==
    { OutlineStyle(c, w) : c \in {none, some(BLUE)}, w \in {none, some(N(2))} }

Leaves ==
    { fill(sh, st) : sh \in Shapes, st \in FillStyles } \cup
    { outline(sh, st) : sh \in Shapes, st \in OutlineStyles }

CoreLeaves ==
    { fill(Square, FillStyle(some(RED))),
      outline(Segment, OutlineStyle(some(BLUE), some(N(2)))) }

RotateAngles ==
    { <<0, 0, 0>>, <<90, 0, 0>>, <<0, 90, 0>>, <<0, 0, 90>>, <<90, 180, 270>> }

\* d under each Translate, Scale and Rotate node of the model
Wrap(d) ==
    { translate(N(1), N(2), N(3), d), translate(N(-2), N(0), N(1), d),
      scale(N(2), N(3), N(4), d), scale(N(-1), N(2), N(1), d) } \cup
    { rotate(degrees(N(a[1])), degrees(N(a[2])), degrees(N(a[3])), d) : a \in RotateAngles }

WrapFew(d) ==
    { translate(N(1), N(2), N(3), d), scale(N(2), N(3), N(4), d),
      rotate(degrees(N(90)), degrees(N(0)), degrees(N(90)), d) }

RECURSIVE Chains(_)
\* a core leaf under at most n Translate, Scale and Rotate nodes
Chains(n) ==
    IF n = 0 THEN CoreLeaves
    ELSE LET below == Chains(n - 1) IN below \cup UNION { Wrap(d) : d \in below }

GappedLeaves ==
    { fill(Gapped, FillStyle(none)), outline(LateStart, OutlineStyle(some(BLUE), none)) }

Children == CoreLeaves \cup UNION { WrapFew(d) : d \in CoreLeaves }

Manys == { many(ds) : ds \in SeqsUpTo(Children, MaxMany) }

NestedManys ==
    { many(<<many(ds), l>>) : ds \in SeqsUpTo(CoreLeaves, MaxMany), l \in CoreLeaves }

Drawings ==
    Leaves \cup Chains(MaxDepth) \cup Manys \cup NestedManys
    \cup UNION { WrapFew(d) : d \in Manys }
    \cup UNION { WrapFew(d) : d \in GappedLeaves }

-----------------------------------------------------------------------------
(* render: the effects of go(identity)(drawing), run one at a time *)

Init ==
    /\ drawing \in Drawings
    /\ stack = <<Go(identity, drawing, <<>>)>>
    /\ cmds = <<>>
    /\ ctx = DefaultCtx
    /\ saved = <<>>
    /\ leaves = <<>>
    /\ heap = <<>>
    /\ made = <<>>
    /\ error = NoError
    /\ path = <<>>
    /\ prev = <<>>
    /\ op = NoCall
    /\ calls = 0
    /\ seed = <<>>
    /\ operands = NoOperands
    /\ applied = "none"
    /\ result = NoResult

IsGo(tag) == stack # <<>> /\ Head(stack).k = "go" /\ Head(stack).d._tag = tag

StepMany ==
    /\ IsGo("Many")
    /\ LET g == Head(stack) IN stack' = goMany(g.t, g.d, g.pos) \o Tail(stack)
    /\ UNCHANGED <<drawing, cmds, ctx, saved, leaves, error, pathVars, callVars>>

StepScale ==
    /\ IsGo("Scale")
    /\ LET g == Head(stack)
       IN  stack' = <<Go(goScale(g.t, g.d), g.d.drawing, Append(g.pos, 1))>> \o Tail(stack)
    /\ UNCHANGED <<drawing, cmds, ctx, saved, leaves, error, pathVars, callVars>>

StepRotate ==
    /\ IsGo("Rotate")
    /\ LET g == Head(stack)
       IN  stack' = <<Go(goRotate(g.t, g.d), g.d.drawing, Append(g.pos, 1))>> \o Tail(stack)
    /\ UNCHANGED <<drawing, cmds, ctx, saved, leaves, error, pathVars, callVars>>

StepTranslate ==
    /\ IsGo("Translate")
    /\ LET g == Head(stack)
       IN  stack' = <<Go(goTranslate(g.t, g.d), g.d.drawing, Append(g.pos, 1))>> \o Tail(stack)
    /\ UNCHANGED <<drawing, cmds, ctx, saved, leaves, error, pathVars, callVars>>

Leaf(g) == [pos |-> g.pos, d |-> g.d, t |-> g.t, from |-> Len(cmds) + 1]

StepOutline ==
    /\ IsGo("Outline")
    /\ LET g == Head(stack)
       IN  /\ stack' = goOutline(g.t, g.d) \o Tail(stack)
           /\ leaves' = Append(leaves, Leaf(g))
    /\ UNCHANGED <<drawing, cmds, ctx, saved, error, pathVars, callVars>>

StepFill ==
    /\ IsGo("Fill")
    /\ LET g == Head(stack)
       IN  /\ stack' = goFill(g.t, g.d) \o Tail(stack)
           /\ leaves' = Append(leaves, Leaf(g))
    /\ UNCHANGED <<drawing, cmds, ctx, saved, error, pathVars, callVars>>

StepToCoords ==
    /\ stack # <<>> /\ Head(stack).k = "toCoords"
    /\ LET g == Head(stack)
           coords == toCoords(g.shape, g.t)
       IN  stack' = flatten([i \in 1..Len(coords) |-> renderSubPath(coords[i])])
                    \o Tail(stack)
    /\ UNCHANGED <<drawing, cmds, ctx, saved, leaves, error, pathVars, callVars>>

\* the Renderer receives the next command
StepIo ==
    /\ stack # <<>> /\ Head(stack).k = "io"
    /\ LET c == Head(stack).c
       IN  /\ cmds' = Append(cmds, c)
           /\ ctx' = ctxStyle(c, ctx)
           /\ saved' = ctxSaved(c, ctx)
    /\ stack' = Tail(stack)
    /\ UNCHANGED <<drawing, leaves, error, pathVars, callVars>>

Next ==
    \/ StepMany
    \/ StepScale
    \/ StepRotate
    \/ StepTranslate
    \/ StepOutline
    \/ StepFill
    \/ StepToCoords
    \/ StepIo

Spec == Init /\ [][Next]_vars

-----------------------------------------------------------------------------
(* render with a Renderer whose calls may throw *)

\* what a Renderer call may throw
RendererErrors == { "InvalidStateError" }

IsRestore(e) == e.k = "io" /\ e.c.op = "restore"

\* faulty variant: the pending restores still run, as in a finally block
unwind_finally(st) == SelectSeq(st, IsRestore)

\* the effects left to run once a call has thrown: chain and chainFirst hold
\* no handler, the exception leaves render
unwind(st) == <<>>

\* the Renderer throws e in the next command
StepIoThrows(e) ==
    /\ stack # <<>> /\ Head(stack).k = "io"
    /\ error.k = "none"
    /\ cmds' = Append(cmds, Head(stack).c)
    /\ error' = [k |-> "thrown", e |-> e, by |-> Head(stack).c, at |-> Len(cmds) + 1]
    /\ stack' = unwind(Tail(stack))
    /\ UNCHANGED <<drawing, ctx, saved, leaves, pathVars, callVars>>

NextThrows ==
    \/ StepMany
    \/ StepScale
    \/ StepRotate
    \/ StepTranslate
    \/ StepOutline
    \/ StepFill
    \/ StepToCoords
    \/ StepIo
    \/ \E e \in RendererErrors : StepIoThrows(e)

\* the drawings rendered with a throwing Renderer: every leaf, a leaf under
\* one Translate, Scale or Rotate, and the Many nodes that hold a Many
ThrowDrawings == Leaves \cup Chains(1) \cup NestedManys

InitThrows ==
    /\ drawing \in ThrowDrawings
    /\ stack = <<Go(identity, drawing, <<>>)>>
    /\ cmds = <<>>
    /\ ctx = DefaultCtx
    /\ saved = <<>>
    /\ leaves = <<>>
    /\ heap = <<>>
    /\ made = <<>>
    /\ error = NoError
    /\ path = <<>>
    /\ prev = <<>>
    /\ op = NoCall
    /\ calls = 0
    /\ seed = <<>>
    /\ operands = NoOperands
    /\ applied = "none"
    /\ result = NoResult

SpecThrows == InitThrows /\ [][NextThrows]_vars

-----------------------------------------------------------------------------
(* Path3D: builder calls from a starting value *)

InitPath3D ==
    /\ seed \in SeedPaths
    /\ path = seed
    /\ prev = seed
    /\ op = NoCall
    /\ calls = 0
    /\ drawing = many(<<>>)
    /\ stack = <<>>
    /\ cmds = <<>>
    /\ ctx = DefaultCtx
    /\ saved = <<>>
    /\ leaves = <<>>
    /\ heap = <<>>
    /\ made = <<>>
    /\ error = NoError
    /\ operands = NoOperands
    /\ applied = "none"
    /\ result = NoResult

NextPath3D ==
    \/ \E pt \in Points : DoMoveTo(pt)
    \/ \E pt \in Points : DoLineTo(pt)
    \/ DoClosePath

SpecPath3D == InitPath3D /\ [][NextPath3D]_vars

-----------------------------------------------------------------------------
(* Path3D on the heap: builder calls on the latest value or the one before *)

HeapPoints == { <<N(0), N(0), N(0)>>, <<N(1), N(0), N(0)>>, <<NaN, N(0), N(0)>> }

\* a value handed out: its address, what it held then, the call that made it
Made(h, ref, name, pt, arg) ==
    [ref |-> ref, snap |-> Deref(h, ref), op |-> name, point |-> pt, arg |-> arg]

InitHeap ==
    /\ seed \in SeedPaths
    /\ path = seed
    /\ prev = seed
    /\ op = NoCall
    /\ calls = 0
    /\ heap = literal(<<>>, seed).heap
    /\ made = <<Made(heap, literal(<<>>, seed).ref, "literal", <<>>, 0)>>
    /\ drawing = many(<<>>)
    /\ stack = <<>>
    /\ cmds = <<>>
    /\ ctx = DefaultCtx
    /\ saved = <<>>
    /\ leaves = <<>>
    /\ error = NoError
    /\ operands = NoOperands
    /\ applied = "none"
    /\ result = NoResult

\* the values a call may be made on
Args == { i \in 1..Len(made) : i >= Len(made) - 1 }

\* the call name(pt) on value number i gave r, the value v
HeapCall(name, pt, i, r, v) ==
    /\ calls < MaxCalls
    /\ heap' = r.heap
    /\ made' = Append(made, Made(r.heap, r.ref, name, pt, i))
    /\ prev' = Deref(heap, made[i].ref)
    /\ path' = v
    /\ op' = [name |-> name, point |-> pt]
    /\ calls' = calls + 1
    /\ UNCHANGED <<seed, renderVars, callVars>>

HeapMoveTo(pt, i) ==
    HeapCall("moveTo", pt, i, heapMoveTo(pt, made[i].ref, heap),
             moveTo(pt, Deref(heap, made[i].ref)))

HeapLineTo(pt, i) ==
    HeapCall("lineTo", pt, i, heapLineTo(pt, made[i].ref, heap),
             lineTo(pt, Deref(heap, made[i].ref)))

HeapClosePath(i) ==
    HeapCall("closePath", <<>>, i, heapClosePath(made[i].ref, heap),
             closePath(Deref(heap, made[i].ref)))

NextHeap ==
    \/ \E pt \in HeapPoints, i \in Args : HeapMoveTo(pt, i)
    \/ \E pt \in HeapPoints, i \in Args : HeapLineTo(pt, i)
    \/ \E i \in Args : HeapClosePath(i)

SpecHeap == InitHeap /\ [][NextHeap]_vars

-----------------------------------------------------------------------------
(* Vec and Mat: calls of dot, concat, mul, concatAll and the rotations *)

MaxEntry == 1

Entries == { N(i) : i \in -1..MaxEntry }

VecsOfLen(n) == [1..n -> Entries]

\* the vectors of the Vec test, next to all short vectors of small entries
Vecs ==
    VecsOfLen(1) \cup VecsOfLen(2) \cup VecsOfLen(3)
    \cup { <<N(1), N(2), N(-3)>>, <<N(1), N(2), N(1)>> }

\* the matrices of the Mat test
M1 == << <<N(1), N(2)>>, <<N(3), N(4)>>, <<N(5), N(6)>> >>

M2 == << <<N(1), N(2), N(3)>>, <<N(4), N(5), N(6)>> >>

\* the matrix of the row test
M34 ==
    << <<N(1), N(2), N(3), N(4)>>,
       <<N(5), N(6), N(7), N(8)>>,
       <<N(9), N(10), N(11), N(12)>> >>

Dense ==
    << <<N(1), N(2), N(0), N(1)>>,
       <<N(0), N(1), N(3), N(0)>>,
       <<N(2), N(0), N(1), N(1)>>,
       <<N(1), N(1), N(0), N(2)>> >>

RightAngles == { N(0), N(90), N(180), N(270) }

MatsCore ==
    { identity, Mat_translate(<<N(1), N(2), N(3)>>), Mat_scale(<<N(2), N(3), N(4)>>),
      rotateX(N(90)), rotateZ(N(90)), Dense, M1, M2, M34 }

Mats ==
    MatsCore
    \cup { Mat_translate(v) : v \in VecsOfLen(3) } \cup { Mat_scale(v) : v \in VecsOfLen(3) }
    \cup { rotateX(a) : a \in RightAngles } \cup { rotateY(a) : a \in RightAngles }
    \cup { rotateZ(a) : a \in RightAngles }

\* the points a rotation is applied to
RotPoints == { pt \in ShapePoints \cup FinitePoints : isPointFinite(pt) }

\* the call returned the value x
Returned(x) == [k |-> "returned", value |-> x]

InitMat ==
    /\ \/ operands \in { [kind |-> "vecs", v |-> <<a, b>>] : a \in Vecs, b \in Vecs }
       \/ operands \in { [kind |-> "mats", v |-> ms] : ms \in SeqsUpTo(MatsCore, 3) }
       \/ operands \in { [kind |-> "mats", v |-> <<a, b>>] : a \in Mats, b \in Mats }
       \/ operands \in { [kind |-> "rot", v |-> <<a, pt>>] : a \in RightAngles, pt \in RotPoints }
       \/ operands \in { [kind |-> "row", v |-> <<n, m>>] : n \in 0..3, m \in MatsCore }
    /\ applied = "none"
    /\ result = NoResult
    /\ path = <<>>
    /\ prev = <<>>
    /\ op = NoCall
    /\ calls = 0
    /\ seed = <<>>
    /\ drawing = many(<<>>)
    /\ stack = <<>>
    /\ cmds = <<>>
    /\ ctx = DefaultCtx
    /\ saved = <<>>
    /\ leaves = <<>>
    /\ heap = <<>>
    /\ made = <<>>
    /\ error = NoError

\* the call f gives the outcome r
Call(f, r) ==
    /\ applied' = f
    /\ result' = r
    /\ UNCHANGED <<operands, pathVars, renderVars>>

\* dot(b)(a)
DoDot ==
    /\ operands.kind = "vecs"
    /\ Call("dot", Returned(dot(operands.v[2], operands.v[1])))

\* semigroupMat.concat(A, B)
DoConcat ==
    /\ operands.kind = "mats" /\ Len(operands.v) = 2
    /\ Call("concat", Returned(concat(operands.v[1], operands.v[2])))

\* mul(B)(A)
DoMul ==
    /\ operands.kind = "mats" /\ Len(operands.v) = 2
    /\ Call("mul", Returned(mul(operands.v[2], operands.v[1])))

\* semigroupMat.concat(semigroupMat.concat(A, B), C)
DoConcat3 ==
    /\ operands.kind = "mats" /\ Len(operands.v) = 3
    /\ Call("concat3", Returned(concat(concat(operands.v[1], operands.v[2]), operands.v[3])))

\* concatAll(ms)
DoConcatAll ==
    /\ operands.kind = "mats"
    /\ Call("concatAll", Returned(concatAll(operands.v)))

\* the row point (x, y, z, 1) times m: m itself and the product
Rotated(m, pt) == [mat |-> m, pt |-> mul(m, <<Append(pt, N(1))>>)[1]]

DoRotateX ==
    /\ operands.kind = "rot"
    /\ Call("rotateX", Returned(Rotated(rotateX(operands.v[1]), operands.v[2])))

DoRotateY ==
    /\ operands.kind = "rot"
    /\ Call("rotateY", Returned(Rotated(rotateY(operands.v[1]), operands.v[2])))

DoRotateZ ==
    /\ operands.kind = "rot"
    /\ Call("rotateZ", Returned(Rotated(rotateZ(operands.v[1]), operands.v[2])))

\* transpose(M)
DoTranspose ==
    /\ operands.kind = "mats" /\ Len(operands.v) = 1
    /\ Call("transpose", Returned(transpose(operands.v[1])))

\* row(n)(M)
DoRow ==
    /\ operands.kind = "row"
    /\ Call("row", Returned(row(operands.v[1], operands.v[2])))

NextMat ==
    \/ DoTranspose
    \/ DoRow
    \/ DoDot
    \/ DoConcat
    \/ DoMul
    \/ DoConcat3
    \/ DoConcatAll
    \/ DoRotateX
    \/ DoRotateY
    \/ DoRotateZ

SpecMat == InitMat /\ [][NextMat]_vars

-----------------------------------------------------------------------------
(* The Drawing and style monoids: calls of their concat *)

\* drawings of every variant, Many nodes of up to MaxMany leaves among them
MonoidDrawings ==
    Children \cup NestedManys \cup { many(ds) : ds \in SeqsUpTo(CoreLeaves, MaxMany) }

\* one drawing of each shape of tree, for the calls with three operands
MonoidDrawingsCore ==
    CoreLeaves \cup
    { many(<<>>), many(<<fill(Square, FillStyle(some(RED)))>>),
      many(<<outline(Segment, OutlineStyle(some(BLUE), some(N(2)))),
             fill(Square, FillStyle(some(RED)))>>),
      many(<<many(<<fill(Square, FillStyle(some(RED)))>>),
             outline(Segment, OutlineStyle(some(BLUE), some(N(2))))>>),
      translate(N(1), N(2), N(3), fill(Square, FillStyle(some(RED)))),
      scale(N(2), N(3), N(4), many(<<>>)),
      rotate(degrees(N(90)), degrees(N(0)), degrees(N(90)),
             outline(Segment, OutlineStyle(some(BLUE), some(N(2))))) }

OptionColors == { none, some(RED), some(BLUE) }

OptionWidths == { none, some(N(1)), some(N(2)) }

MonoidFillStyles == { FillStyle(c) : c \in OptionColors }

MonoidOutlineStyles == { OutlineStyle(c, w) : c \in OptionColors, w \in OptionWidths }

\* two or three operands out of S
Operands(kind, S) ==
    { [kind |-> kind, v |-> <<a, b>>] : a \in S, b \in S } \cup
    { [kind |-> kind, v |-> <<a, b, c>>] : a \in S, b \in S, c \in S }

InitMonoid ==
    /\ \/ operands \in { [kind |-> "drawings", v |-> <<a, b>>] :
                             a \in MonoidDrawings, b \in MonoidDrawings }
       \/ operands \in Operands("drawings", MonoidDrawingsCore)
       \/ operands \in Operands("fillStyles", MonoidFillStyles)
       \/ operands \in Operands("outlineStyles", MonoidOutlineStyles)
    /\ applied = "none"
    /\ result = NoResult
    /\ path = <<>>
    /\ prev = <<>>
    /\ op = NoCall
    /\ calls = 0
    /\ seed = <<>>
    /\ drawing = many(<<>>)
    /\ stack = <<>>
    /\ cmds = <<>>
    /\ ctx = DefaultCtx
    /\ saved = <<>>
    /\ leaves = <<>>
    /\ heap = <<>>
    /\ made = <<>>
    /\ error = NoError

Has(kind, n) == operands.kind = kind /\ Len(operands.v) = n

\* monoidDrawing.concat(x, y)
DrawingConcat ==
    /\ Has("drawings", 2)
    /\ Call("monoidDrawing.concat",
            Returned(monoidDrawing_concat(operands.v[1], operands.v[2])))

\* monoidDrawing.concat(monoidDrawing.concat(x, y), z)
DrawingConcat3 ==
    /\ Has("drawings", 3)
    /\ Call("monoidDrawing.concat3",
            Returned(monoidDrawing_concat(monoidDrawing_concat(operands.v[1], operands.v[2]),
                                          operands.v[3])))

\* monoidFillStyle.concat(x, y)
FillStyleConcat ==
    /\ Has("fillStyles", 2)
    /\ Call("monoidFillStyle.concat",
            Returned(monoidFillStyle_concat(operands.v[1], operands.v[2])))

\* monoidFillStyle.concat(monoidFillStyle.concat(x, y), z)
FillStyleConcat3 ==
    /\ Has("fillStyles", 3)
    /\ Call("monoidFillStyle.concat3",
            Returned(monoidFillStyle_concat(monoidFillStyle_concat(operands.v[1], operands.v[2]),
                                            operands.v[3])))

\* monoidOutlineStyle.concat(x, y)
OutlineStyleConcat ==
    /\ Has("outlineStyles", 2)
    /\ Call("monoidOutlineStyle.concat",
            Returned(monoidOutlineStyle_concat(operands.v[1], operands.v[2])))

\* monoidOutlineStyle.concat(monoidOutlineStyle.concat(x, y), z)
OutlineStyleConcat3 ==
    /\ Has("outlineStyles", 3)
    /\ Call("monoidOutlineStyle.concat3",
            Returned(monoidOutlineStyle_concat(
                        monoidOutlineStyle_concat(operands.v[1], operands.v[2]),
                        operands.v[3])))

NextMonoid ==
    \/ DrawingConcat
    \/ DrawingConcat3
    \/ FillStyleConcat
    \/ FillStyleConcat3
    \/ OutlineStyleConcat
    \/ OutlineStyleConcat3

SpecMonoid == InitMonoid /\ [][NextMonoid]_vars

-----------------------------------------------------------------------------
(* Shape: calls of path, closed and renderShape *)

PointSeqs == SeqsUpTo(ShapePoints, MaxPathLen + 1)

InitShape ==
    /\ \/ operands \in { [kind |-> "points", v |-> ps] : ps \in PointSeqs }
       \/ operands \in { [kind |-> "shape", v |-> sh] :
                             sh \in Shapes \cup { Path(c, ps) : c \in BOOLEAN, ps \in PointSeqs } }
    /\ applied = "none"
    /\ result = NoResult
    /\ path = <<>>
    /\ prev = <<>>
    /\ op = NoCall
    /\ calls = 0
    /\ seed = <<>>
    /\ drawing = many(<<>>)
    /\ stack = <<>>
    /\ cmds = <<>>
    /\ ctx = DefaultCtx
    /\ saved = <<>>
    /\ leaves = <<>>
    /\ heap = <<>>
    /\ made = <<>>
    /\ error = NoError

\* path(RA.Foldable)(ps)
DoPath ==
    /\ operands.kind = "points"
    /\ Call("path", Returned(Shape_path(operands.v)))

\* closed(RA.Foldable)(ps)
DoClosed ==
    /\ operands.kind = "points"
    /\ Call("closed", Returned(Shape_closed(operands.v)))

\* renderShape(shape)
DoRenderShape ==
    /\ operands.kind = "shape"
    /\ Call("renderShape", Returned(renderShape(operands.v)))

NextShape ==
    \/ DoPath
    \/ DoClosed
    \/ DoRenderShape

SpecShape == InitShape /\ [][NextShape]_vars

-----------------------------------------------------------------------------
(* Properties of the Path3D builder (SpecPath3D) *)

Last(q) == q[Len(q)]

\* every subpath of q before the last one is the same in r
EarlierUnchanged(q, r) == \A i \in 1..(Len(q) - 1) : r[i] = q[i]

\* the points a and b are the same in all three components
SamePoint(a, b) == \A i \in 1..3 : strictEq(a[i], b[i])

\* all three coordinates of pt are finite numbers
FinitePoint(pt) == \A i \in 1..3 : pt[i].k = "fin"

Closes(q) == q # <<>> /\ Len(Last(q)) >= 2 /\ ~SamePoint(Last(q)[1], Last(Last(q)))

\* C3: closePath of a path whose last subpath has at least 2 points and whose
\* last point differs from its first appends a copy of the first point to the
\* last subpath, adds one trailing subpath holding only that first point and
\* leaves the earlier subpaths unchanged.
C3_ClosePathCloses ==
    (op.name = "closePath" /\ Closes(prev)) =>
        /\ Len(path) = Len(prev) + 1
        /\ path[Len(prev)] = Append(Last(prev), Last(prev)[1])
        /\ Last(path) = <<Last(prev)[1]>>
        /\ EarlierUnchanged(prev, path)

\* the test's case: a subpath of three distinct points, then closePath
C3_Witness ==
    /\ op.name = "closePath"
    /\ Len(prev) = 1 /\ Len(prev[1]) = 3
    /\ Cardinality({prev[1][i] : i \in 1..3}) = 3
    /\ path = <<Append(prev[1], prev[1][1]), <<prev[1][1]>> >>

\* C4: closePath returns its argument unchanged when the path is empty, when
\* its last subpath has at most one point, and when the last subpath's final
\* point equals its first point in all three components.
C4_ClosePathNoOp ==
    (op.name = "closePath" /\
        (\/ prev = <<>>
         \/ Len(Last(prev)) <= 1
         \/ SamePoint(Last(prev)[1], Last(Last(prev))))) => path = prev

\* an already closed subpath of three points
C4_Witness ==
    /\ op.name = "closePath"
    /\ prev # <<>> /\ Len(Last(prev)) = 3
    /\ SamePoint(Last(prev)[1], Last(prev)[3])
    /\ Last(prev)[2] # Last(prev)[1]
    /\ path = prev

\* C5: lineTo(p) leaves the path unchanged for a non-finite p; otherwise it
\* appends p to the last subpath, the earlier subpaths unchanged; on the empty
\* path it gives [[p]], as moveTo does.
C5_LineTo ==
    op.name = "lineTo" =>
        IF ~FinitePoint(op.point) THEN path = prev
        ELSE IF prev # <<>>
             THEN /\ Len(path) = Len(prev)
                  /\ Last(path) = Append(Last(prev), op.point)
                  /\ EarlierUnchanged(prev, path)
             ELSE path = << <<op.point>> >> /\ path = moveTo(op.point, prev)

\* a finite point appended to the second of two subpaths
C5_Witness ==
    /\ op.name = "lineTo" /\ FinitePoint(op.point)
    /\ Len(prev) = 2 /\ Len(prev[2]) >= 1
    /\ path = <<prev[1], Append(prev[2], op.point)>>

\* C6: moveTo(p) leaves the path unchanged for a non-finite p; otherwise it
\* appends the one new subpath [p] and leaves every existing subpath as it
\* was, so the number of subpaths grows by exactly one.
C6_MoveTo ==
    op.name = "moveTo" =>
        IF ~FinitePoint(op.point) THEN path = prev
        ELSE /\ Len(path) = Len(prev) + 1
             /\ Last(path) = <<op.point>>
             /\ \A i \in 1..Len(prev) : path[i] = prev[i]

\* a second moveTo after a moveTo: two single-point subpaths
C6_Witness ==
    /\ op.name = "moveTo" /\ FinitePoint(op.point)
    /\ prev # <<>> /\ Len(Last(prev)) = 1 /\ FinitePoint(Last(prev)[1])
    /\ Len(path) = Len(prev) + 1
    /\ path[Len(prev)] = Last(prev)

\* C27: in every Path3D reached from the empty path by moveTo, lineTo and
\* closePath calls with arbitrary points, finite or not, every subpath is
\* non-empty and every stored point has three finite coordinates; no call
\* returns fewer subpaths than it was given.
C27_BuilderInvariant ==
    seed = <<>> =>
        /\ \A i \in 1..Len(path) :
              /\ path[i] # <<>>
              /\ \A j \in 1..Len(path[i]) : Len(path[i][j]) = 3 /\ FinitePoint(path[i][j])
        /\ Len(path) >= Len(prev)

\* from the empty path: a closed subpath and [start] are held, and a lineTo
\* of a non-finite point has just been dropped
C27_Witness ==
    /\ seed = <<>>
    /\ calls = MaxCalls
    /\ op.name = "lineTo" /\ ~FinitePoint(op.point)
    /\ Len(path) = 2 /\ Len(path[1]) = 3 /\ Len(path[2]) = 1
    /\ path = prev

-----------------------------------------------------------------------------
(* Properties of render (Spec) *)

Done == stack = <<>>

\* the row vector (x, y, z, 1) times the 4x4 matrix T, component j
RowTimes(pt, T, j) ==
    N(pt[1].v * T[1][j].v + pt[2].v * T[2][j].v + pt[3].v * T[3][j].v + T[4][j].v)

\* the matrix product A.B of two 4x4 matrices, entry by entry
Product(A, B) ==
    CHOOSE P \in
        { [i \in 1..4 |-> [j \in 1..4 |->
            N(a[i][1].v * b[1][j].v + a[i][2].v * b[2][j].v
              + a[i][3].v * b[3][j].v + a[i][4].v * b[4][j].v)]] : a \in {A}, b \in {B} } : TRUE

\* moveTo the first transformed point of a subpath, lineTo the others
SubPathCmds(sub, T) ==
    [i \in 1..Len(sub) |->
        Cmd(IF i = 1 THEN "moveTo" ELSE "lineTo",
            <<RowTimes(sub[i], T, 1), RowTimes(sub[i], T, 2)>>)]

RECURSIVE PathCmds(_, _)
PathCmds(subs, T) ==
    IF subs = <<>> THEN <<>>
    ELSE SubPathCmds(Head(subs), T) \o PathCmds(Tail(subs), T)

IfSome(o, name) == IF o._tag = "Some" THEN <<Cmd(name, <<o.value>>)>> ELSE <<>>

IfSomeCss(o, name) == IF o._tag = "Some" THEN <<Cmd(name, <<toCss(o.value)>>)>> ELSE <<>>

\* what the Renderer is to receive for a Fill leaf reached with transform T
FillCmds(d, T) ==
    <<Cmd("save", <<>>)>> \o IfSomeCss(d.style.color, "setFillStyle")
    \o <<Cmd("beginPath", <<>>)>> \o PathCmds(renderShape(d.shape), T)
    \o <<Cmd("fill", <<>>), Cmd("restore", <<>>)>>

\* what the Renderer is to receive for an Outline leaf reached with transform T
OutlineCmds(d, T) ==
    <<Cmd("save", <<>>)>> \o IfSomeCss(d.style.color, "setStrokeStyle")
    \o IfSome(d.style.lineWidth, "setLineWidth")
    \o <<Cmd("beginPath", <<>>)>> \o PathCmds(renderShape(d.shape), T)
    \o <<Cmd("stroke", <<>>), Cmd("restore", <<>>)>>

\* the commands received since leaf number i began, up to the next leaf
LeafSegment(i) ==
    SubSeq(cmds, leaves[i].from,
           IF i < Len(leaves) THEN leaves[i + 1].from - 1 ELSE Len(cmds))

LeafFinished(i) == i < Len(leaves) \/ Done

IsPrefix(a, b) == Len(a) <= Len(b) /\ SubSeq(b, 1, Len(a)) = a

SquareCmds ==
    << Cmd("save", <<>>), Cmd("setFillStyle", <<toCss(RED)>>), Cmd("beginPath", <<>>),
       Cmd("moveTo", <<N(0), N(0)>>), Cmd("lineTo", <<N(1), N(0)>>),
       Cmd("lineTo", <<N(1), N(1)>>), Cmd("lineTo", <<N(0), N(1)>>),
       Cmd("lineTo", <<N(0), N(0)>>), Cmd("fill", <<>>), Cmd("restore", <<>>) >>

\* C1: for a Fill leaf reached with transform T the Renderer receives, in this
\* order, save, setFillStyle(toCss(color)) iff the style has a colour,
\* beginPath, per subpath of renderShape(shape) a moveTo of its first
\* transformed point and a lineTo of each later one, fill, restore; closePath
\* is never issued; the closed unit square in RED under identity gives save,
\* setFillStyle, beginPath, moveTo(0,0), lineTo(1,0), lineTo(1,1), lineTo(0,1),
\* lineTo(0,0), fill, restore.
C1_FillSequence ==
    /\ \A i \in 1..Len(leaves) :
          leaves[i].d._tag = "Fill" =>
              /\ IsPrefix(LeafSegment(i), FillCmds(leaves[i].d, leaves[i].t))
              /\ LeafFinished(i) => LeafSegment(i) = FillCmds(leaves[i].d, leaves[i].t)
    /\ \A i \in 1..Len(cmds) : cmds[i].op # "closePath"
    /\ (Done /\ drawing = fill(Square, FillStyle(some(RED)))) => cmds = SquareCmds

\* the square has been rendered under a Translate: ten commands, shifted
C1_Witness ==
    /\ Done
    /\ drawing = translate(N(1), N(2), N(3), fill(Square, FillStyle(some(RED))))
    /\ Len(cmds) = 10
    /\ cmds[4] = Cmd("moveTo", <<N(1), N(2)>>)
    /\ cmds[8] = Cmd("lineTo", <<N(1), N(2)>>)

ClosedPathLeaf(d) ==
    d.shape._tag = "Path" /\ d.shape.closed /\ Len(d.shape.points) >= 1

\* C2: renderShape of a Path with closed = true and at least one point is
\* exactly one subpath, whose last point is its first point.
C2_ClosedPathOneSubpath ==
    \A i \in 1..Len(leaves) :
        ClosedPathLeaf(leaves[i].d) =>
            LET subs == renderShape(leaves[i].d.shape)
            IN  Len(subs) = 1 /\ subs[1][Len(subs[1])] = subs[1][1]

Transforming(d) == d._tag \in {"Translate", "Scale", "Rotate"}

RECURSIVE Reached(_, _, _)
\* the transform that is to reach the node at pos of d, when T reaches d
Reached(d, pos, T) ==
    IF pos = <<>> THEN T
    ELSE CASE d._tag = "Many" -> Reached(d.drawings[Head(pos)], Tail(pos), T)
           [] d._tag = "Translate" ->
                Reached(d.drawing, Tail(pos),
                        Product(T, Mat_translate(<<d.translateX, d.translateY, d.translateZ>>)))
           [] d._tag = "Scale" ->
                Reached(d.drawing, Tail(pos),
                        Product(T, Mat_scale(<<d.scaleX, d.scaleY, d.scaleZ>>)))
           [] d._tag = "Rotate" ->
                Reached(d.drawing, Tail(pos),
                        Product(Product(rotateY(angle(d.rotateY)), rotateX(angle(d.rotateX))),
                                Product(T, rotateZ(angle(d.rotateZ)))))

RECURSIVE UnderRotate(_, _)
\* some node of d above pos is a Rotate
UnderRotate(d, pos) ==
    IF pos = <<>> THEN FALSE
    ELSE \/ d._tag = "Rotate"
         \/ UnderRotate(IF d._tag = "Many" THEN d.drawings[Head(pos)] ELSE d.drawing,
                        Tail(pos))

\* the (x, y) pairs of the moveTo and lineTo commands of cs, in order
IsPoint(c) == c.op \in {"moveTo", "lineTo"}

XYs(cs) == LET ps == SelectSeq(cs, IsPoint) IN [i \in 1..Len(ps) |-> ps[i].args]

\* the points of renderShape(shape), subpath after subpath
ShapePointSeq(shape) == flatten(renderShape(shape))

IsLeaf(d) == d._tag \in {"Fill", "Outline"}

\* C7: a Translate node reached with T renders its child with T.Translate, a
\* Scale node with T.Scale, and a leaf point is (x, y, z, 1) times the
\* accumulated transform: Translate(d, Scale(s, leaf)) from identity emits
\* (x, y, z) at ((x+dx)*sx, (y+dy)*sy), and Scale(s, Translate(d, leaf)) emits
\* it at (x*sx+dx, y*sy+dy).
C7_TranslateScale ==
    /\ \A i \in 1..Len(leaves) :
          ~UnderRotate(drawing, leaves[i].pos) =>
              leaves[i].t = Reached(drawing, leaves[i].pos, identity)
    /\ (Done /\ drawing._tag = "Translate" /\ drawing.drawing._tag = "Scale"
             /\ IsLeaf(drawing.drawing.drawing)) =>
          LET tr == drawing
              sc == drawing.drawing
              ps == ShapePointSeq(sc.drawing.shape)
          IN  XYs(cmds) =
                [i \in 1..Len(ps) |->
                    <<N((ps[i][1].v + tr.translateX.v) * sc.scaleX.v),
                      N((ps[i][2].v + tr.translateY.v) * sc.scaleY.v)>>]
    /\ (Done /\ drawing._tag = "Scale" /\ drawing.drawing._tag = "Translate"
             /\ IsLeaf(drawing.drawing.drawing)) =>
          LET sc == drawing
              tr == drawing.drawing
              ps == ShapePointSeq(tr.drawing.shape)
          IN  XYs(cmds) =
                [i \in 1..Len(ps) |->
                    <<N(ps[i][1].v * sc.scaleX.v + tr.translateX.v),
                      N(ps[i][2].v * sc.scaleY.v + tr.translateY.v)>>]

\* Translate(1,2,3, Scale(2,3,4, segment)) has been rendered: (1,2,3) is at (4,12)
C7_Witness ==
    /\ Done
    /\ drawing = translate(N(1), N(2), N(3),
                    scale(N(2), N(3), N(4),
                        outline(Segment, OutlineStyle(some(BLUE), some(N(2))))))
    /\ XYs(cmds) = << <<N(4), N(12)>>, <<N(6), N(6)>> >>

\* C8: a Rotate(ax, ay, az, child) node reached with T renders child with
\* (RotateY(ay).RotateX(ax)).(T.RotateZ(az)), for angles that are multiples of
\* 90 degrees; this is not T.R for a single rotation matrix R.
C8_Rotate ==
    \A i \in 1..Len(leaves) :
        UnderRotate(drawing, leaves[i].pos) =>
            leaves[i].t = Reached(drawing, leaves[i].pos, identity)

\* the rotations about one axis and the products of three of them, one per axis
SingleRotations ==
    LET X == { rotateX(a) : a \in RightAngles }
        Y == { rotateY(a) : a \in RightAngles }
        Z == { rotateZ(a) : a \in RightAngles }
        Three(A, B, C) == { Product(Product(a, b), c) : a \in A, b \in B, c \in C }
    IN  X \cup Y \cup Z \cup Three(X, Y, Z) \cup Three(X, Z, Y) \cup Three(Y, X, Z)
        \cup Three(Y, Z, X) \cup Three(Z, X, Y) \cup Three(Z, Y, X)

\* a leaf under Translate(1,2,3, Rotate(90,180,270, .)): its transform is the
\* one stated, and no T.R
C8_Witness ==
    /\ Done
    /\ drawing._tag = "Translate" /\ drawing.drawing._tag = "Rotate"
    /\ angle(drawing.drawing.rotateX) = N(90)
    /\ IsLeaf(drawing.drawing.drawing)
    /\ LET T == Mat_translate(<<drawing.translateX, drawing.translateY, drawing.translateZ>>)
           r == drawing.drawing
       IN  /\ leaves[1].t = Product(Product(rotateY(angle(r.rotateY)), rotateX(angle(r.rotateX))),
                                    Product(T, rotateZ(angle(r.rotateZ))))
           /\ \A R \in SingleRotations : leaves[1].t # Product(T, R)

RECURSIVE Denote(_, _)
\* the commands a drawing reached with T is to give, whatever is rendered
\* before or after it
Denote(d, T) ==
    CASE d._tag = "Fill" -> FillCmds(d, T)
      [] d._tag = "Outline" -> OutlineCmds(d, T)
      [] d._tag = "Many" -> flatten([i \in 1..Len(d.drawings) |-> Denote(d.drawings[i], T)])
      [] OTHER -> Denote(d.drawing, Reached(d, <<1>>, T))

RECURSIVE LeafPositions(_, _)
\* the places of the leaves of d, in list order
LeafPositions(d, pos) ==
    CASE IsLeaf(d) -> <<pos>>
      [] d._tag = "Many" ->
            flatten([i \in 1..Len(d.drawings) |-> LeafPositions(d.drawings[i], Append(pos, i))])
      [] OTHER -> LeafPositions(d.drawing, Append(pos, 1))

\* the Many node of the drawing that the sibling property is stated for
ManyNode == IF Transforming(drawing) THEN drawing.drawing ELSE drawing

\* C9: the children of a Many node are rendered in list order, each with the
\* transform T that reached the Many node: what a child emits is what it emits
\* when rendered alone with T, whatever Translate, Scale or Rotate an earlier
\* sibling holds.
C9_ManySiblings ==
    (Done /\ ManyNode._tag = "Many") =>
        LET T == IF Transforming(drawing) THEN Reached(drawing, <<1>>, identity) ELSE identity
            ds == ManyNode.drawings
        IN  /\ cmds = flatten([i \in 1..Len(ds) |-> Denote(ds[i], T)])
            /\ [i \in 1..Len(leaves) |-> leaves[i].pos] = LeafPositions(drawing, <<>>)
            /\ \A i \in 1..Len(leaves) :
                   Len(leaves[i].pos) = 1 => LeafSegment(i) = Denote(leaves[i].d, identity)

\* Many([Translate(1,2,3, square), segment]): the segment is emitted unshifted
C9_Witness ==
    /\ Done
    /\ drawing = many(<< translate(N(1), N(2), N(3), fill(Square, FillStyle(some(RED)))),
                         outline(Segment, OutlineStyle(some(BLUE), some(N(2)))) >>)
    /\ XYs(LeafSegment(1))[1] = <<N(1), N(2)>>
    /\ XYs(LeafSegment(2)) = << <<N(1), N(2)>>, <<N(2), N(0)>> >>

RECURSIVE Depth(_)
\* the saves not yet restored after the commands cs
Depth(cs) ==
    IF cs = <<>> THEN 0
    ELSE Depth(SubSeq(cs, 1, Len(cs) - 1))
         + (CASE cs[Len(cs)].op = "save" -> 1 [] cs[Len(cs)].op = "restore" -> -1 [] OTHER -> 0)

Count(cs, name) == Cardinality({ i \in 1..Len(cs) : cs[i].op = name })

IsStyle(c) == c.op \in {"setFillStyle", "setStrokeStyle", "setLineWidth"}

\* C10: in the commands of a render, save and restore are balanced and never
\* nested, one pair per Fill/Outline leaf, and every setFillStyle,
\* setStrokeStyle and setLineWidth lies strictly between a save and its
\* restore; the style state of a Renderer whose save/restore are a stack is,
\* at the start of every leaf and after the render, the state before it.
C10_SaveRestore ==
    /\ \A i \in 1..Len(cmds) :
          /\ Depth(SubSeq(cmds, 1, i)) \in {0, 1}
          /\ IsStyle(cmds[i]) => Depth(SubSeq(cmds, 1, i)) = 1
          /\ cmds[i].op = "save" => Depth(SubSeq(cmds, 1, i - 1)) = 0
          /\ cmds[i].op = "restore" => Depth(SubSeq(cmds, 1, i - 1)) = 1
    /\ Count(cmds, "save") <= Len(leaves)
    /\ Done =>
          /\ Depth(cmds) = 0
          /\ Count(cmds, "save") = Len(LeafPositions(drawing, <<>>))
          /\ Count(cmds, "restore") = Count(cmds, "save")
          /\ ctx = DefaultCtx /\ saved = <<>>
    /\ (stack # <<>> /\ Head(stack).k = "go") => (ctx = DefaultCtx /\ saved = <<>>)

\* two leaves that both set styles have been rendered, and the style is back
C10_Witness ==
    /\ Done
    /\ Len(leaves) = 2
    /\ Count(cmds, "setFillStyle") = 1 /\ Count(cmds, "setLineWidth") = 1
    /\ Count(cmds, "restore") = 2
    /\ ctx = DefaultCtx

\* the position of the first command named name in cs, 0 when there is none
FirstOf(cs, name) ==
    IF \E i \in 1..Len(cs) : cs[i].op = name
    THEN CHOOSE i \in 1..Len(cs) : cs[i].op = name /\ \A j \in 1..(i - 1) : cs[j].op # name
    ELSE 0

\* C11: for an Outline leaf the Renderer receives, in this order, save,
\* setStrokeStyle(toCss(color)) iff the style has a colour, setLineWidth(w) iff
\* it has a line width (after the stroke colour, before beginPath), beginPath,
\* the moveTo/lineTo commands of each subpath, stroke, restore; an Outline leaf
\* gives no fill command and a Fill leaf no stroke command.
C11_OutlineSequence ==
    \A i \in 1..Len(leaves) :
        LET d == leaves[i].d
            seg == LeafSegment(i)
        IN  /\ d._tag = "Outline" =>
                  /\ IsPrefix(seg, OutlineCmds(d, leaves[i].t))
                  /\ Count(seg, "fill") = 0
                  /\ LeafFinished(i) =>
                        /\ seg = OutlineCmds(d, leaves[i].t)
                        /\ Count(seg, "setStrokeStyle") = (IF d.style.color = none THEN 0 ELSE 1)
                        /\ Count(seg, "setLineWidth") = (IF d.style.lineWidth = none THEN 0 ELSE 1)
                        /\ d.style.lineWidth # none =>
                              /\ FirstOf(seg, "setStrokeStyle") < FirstOf(seg, "setLineWidth")
                              /\ FirstOf(seg, "setLineWidth") < FirstOf(seg, "beginPath")
                        /\ FirstOf(seg, "beginPath") < FirstOf(seg, "stroke")
                        /\ FirstOf(seg, "stroke") = Len(seg) - 1
            /\ d._tag = "Fill" => Count(seg, "stroke") = 0

\* the segment has been outlined in BLUE with line width 2 under identity
C11_Witness ==
    /\ Done
    /\ drawing = outline(Segment, OutlineStyle(some(BLUE), some(N(2))))
    /\ cmds = << Cmd("save", <<>>), Cmd("setStrokeStyle", <<toCss(BLUE)>>),
                 Cmd("setLineWidth", <<N(2)>>), Cmd("beginPath", <<>>),
                 Cmd("moveTo", <<N(1), N(2)>>), Cmd("lineTo", <<N(2), N(0)>>),
                 Cmd("stroke", <<>>), Cmd("restore", <<>>) >>

RECURSIVE NoRotate(_)
\* d is built of Many, Translate, Scale, Fill and Outline only
NoRotate(d) ==
    CASE IsLeaf(d) -> TRUE
      [] d._tag = "Many" -> \A i \in 1..Len(d.drawings) : NoRotate(d.drawings[i])
      [] d._tag = "Rotate" -> FALSE
      [] OTHER -> NoRotate(d.drawing)

\* pt with its depth, when finite, replaced by 0
ErasePointZ(pt) == <<pt[1], pt[2], IF isFinite(pt[3]) THEN N(0) ELSE pt[3]>>

RECURSIVE EraseShapeZ(_)
EraseShapeZ(shape) ==
    IF shape._tag = "Path"
    THEN Path(shape.closed, [i \in 1..Len(shape.points) |-> ErasePointZ(shape.points[i])])
    ELSE composite([i \in 1..Len(shape.shapes) |-> EraseShapeZ(shape.shapes[i])])

RECURSIVE EraseZ(_)
\* d with every finite depth of a point, every translateZ and every scaleZ
\* replaced by 0: two trees that differ in depths only have the same EraseZ
EraseZ(d) ==
    CASE d._tag = "Fill" -> fill(EraseShapeZ(d.shape), d.style)
      [] d._tag = "Outline" -> outline(EraseShapeZ(d.shape), d.style)
      [] d._tag = "Many" -> many([i \in 1..Len(d.drawings) |-> EraseZ(d.drawings[i])])
      [] d._tag = "Translate" -> translate(d.translateX, d.translateY, N(0), EraseZ(d.drawing))
      [] d._tag = "Scale" -> scale(d.scaleX, d.scaleY, N(0), EraseZ(d.drawing))
      [] OTHER -> d

Operand(cs) ==
    {many(cs)} \cup (IF Len(cs) = 1 /\ cs[1]._tag # "Many" THEN {cs[1]} ELSE {})

\* the pairs <<x, y>> with monoidDrawing.concat(x, y) = d
ConcatPairs(d) ==
    IF d._tag # "Many" THEN {}
    ELSE { xy \in UNION { Operand(SubSeq(d.drawings, 1, k))
                           \X Operand(SubSeq(d.drawings, k + 1, Len(d.drawings))) :
                           k \in 0..Len(d.drawings) } :
             monoidDrawing_concat(xy[1], xy[2]) = d }

\* C28: render is a monoid homomorphism into command sequences: the commands
\* of render(monoidDrawing.concat(x, y)) are those of render(x) followed by
\* those of render(y), and render(monoidDrawing.empty) emits no command; the
\* commands of render(d) being Denote(d, identity) for every drawing d.
C28_RenderHomomorphism ==
    Done =>
        /\ cmds = Denote(drawing, identity)
        /\ \A xy \in ConcatPairs(drawing) :
              cmds = Denote(xy[1], identity) \o Denote(xy[2], identity)
        /\ drawing = monoidDrawing_empty => cmds = <<>>

\* Many([Translate(square), segment]) is concat(Many([Translate(square)]),
\* segment) and concat(Translate(square), segment); all four operands are
\* drawings of the model, and the commands are theirs in order
C28_Witness ==
    /\ Done
    /\ drawing = many(<< translate(N(1), N(2), N(3), fill(Square, FillStyle(some(RED)))),
                         outline(Segment, OutlineStyle(some(BLUE), some(N(2)))) >>)
    /\ Cardinality(ConcatPairs(drawing)) >= 3
    /\ \A xy \in ConcatPairs(drawing) : xy[1] \in Drawings /\ xy[2] \in Drawings
    /\ Len(cmds) = 18
    /\ SubSeq(cmds, 1, 10) = Denote(drawing.drawings[1], identity)
    /\ SubSeq(cmds, 11, 18) = Denote(drawing.drawings[2], identity)

IsRotate0(d) ==
    /\ d._tag = "Rotate"
    /\ d.rotateX = degrees(N(0)) /\ d.rotateY = degrees(N(0)) /\ d.rotateZ = degrees(N(0))

RECURSIVE HasRotate0(_)
HasRotate0(d) ==
    CASE IsLeaf(d) -> FALSE
      [] d._tag = "Many" -> \E i \in 1..Len(d.drawings) : HasRotate0(d.drawings[i])
      [] OTHER -> IsRotate0(d) \/ HasRotate0(d.drawing)

RECURSIVE StripRotate0(_)
\* d with every Rotate(degrees(0), degrees(0), degrees(0), e) replaced by e
StripRotate0(d) ==
    CASE IsLeaf(d) -> d
      [] d._tag = "Many" ->
            many([i \in 1..Len(d.drawings) |-> StripRotate0(d.drawings[i])])
      [] IsRotate0(d) -> StripRotate0(d.drawing)
      [] OTHER -> [d EXCEPT !.drawing = StripRotate0(d.drawing)]

\* C29: a Rotate node with three zero angles is unobservable wherever it
\* stands in the tree: the commands of a drawing holding such nodes, under any
\* enclosing Translate, Scale or Rotate and over any nested one, are the
\* commands of the drawing with each Rotate(0, 0, 0, e) replaced by e.
C29_ZeroRotateUnobservable ==
    (Done /\ HasRotate0(drawing)) => cmds = Denote(StripRotate0(drawing), identity)

\* Rotate(90, 0, 0, Rotate(0, 0, 0, segment)): the segment's z reaches the
\* emitted y through the enclosing rotation, and the commands are those of
\* Rotate(90, 0, 0, segment), a drawing of the model
C29_Witness ==
    /\ Done
    /\ drawing._tag = "Rotate" /\ drawing.rotateX = degrees(N(90))
    /\ drawing.rotateY = degrees(N(0)) /\ drawing.rotateZ = degrees(N(0))
    /\ IsRotate0(drawing.drawing)
    /\ drawing.drawing.drawing = outline(Segment, OutlineStyle(some(BLUE), some(N(2))))
    /\ StripRotate0(drawing) \in Drawings
    /\ StripRotate0(drawing) = [drawing EXCEPT !.drawing = drawing.drawing.drawing]
    /\ cmds # Denote(drawing.drawing.drawing, identity)
    /\ cmds = Denote(StripRotate0(drawing), identity)

IsOpenPathLeaf(d) == IsLeaf(d) /\ d.shape._tag = "Path" /\ ~d.shape.closed

FiniteCoords(c) == \A j \in 1..Len(c.args) : c.args[j].k = "fin"

\* save, the styles that are set, beginPath, fill or stroke, restore
BareLeafCmds(d) ==
    <<Cmd("save", <<>>)>>
    \o (IF d._tag = "Fill" THEN IfSomeCss(d.style.color, "setFillStyle")
        ELSE IfSomeCss(d.style.color, "setStrokeStyle") \o IfSome(d.style.lineWidth, "setLineWidth"))
    \o <<Cmd("beginPath", <<>>), Cmd(IF d._tag = "Fill" THEN "fill" ELSE "stroke", <<>>),
         Cmd("restore", <<>>)>>

\* C30: a Fill or Outline of an open Path holding non-finite points emits
\* moveTo and lineTo for exactly its finite points, in their order: moveTo
\* for the first finite point, also when the first point of the list is not
\* finite, lineTo for each later one, and no emitted coordinate is non-finite;
\* with no finite point the leaf still emits save, its styles, beginPath,
\* fill or stroke, and restore, and no moveTo or lineTo.
C30_NonFiniteDropped ==
    \A i \in 1..Len(leaves) :
        (LeafFinished(i) /\ IsOpenPathLeaf(leaves[i].d)) =>
            LET d == leaves[i].d
                finite == SelectSeq(d.shape.points, FinitePoint)
                seg == LeafSegment(i)
            IN  /\ SelectSeq(seg, IsPoint) = SubPathCmds(finite, leaves[i].t)
                /\ \A j \in 1..Len(seg) : IsPoint(seg[j]) => FiniteCoords(seg[j])
                /\ SelectSeq(seg, LAMBDA c : ~IsPoint(c)) = BareLeafCmds(d)
                /\ finite = <<>> => seg = BareLeafCmds(d)

\* Scale(2, 3, 4, Outline(LateStart)): the first point is not finite, the
\* second is moved to, the third is drawn to
C30_Witness ==
    /\ Done
    /\ drawing = scale(N(2), N(3), N(4), outline(LateStart, OutlineStyle(some(BLUE), none)))
    /\ ~FinitePoint(drawing.drawing.shape.points[1])
    /\ cmds = << Cmd("save", <<>>), Cmd("setStrokeStyle", <<toCss(BLUE)>>),
                 Cmd("beginPath", <<>>), Cmd("moveTo", <<N(2), N(6)>>),
                 Cmd("lineTo", <<N(2), N(0)>>), Cmd("stroke", <<>>), Cmd("restore", <<>>) >>

\* X has r rows of c numbers each
IsMat(X, r, c) == Len(X) = r /\ \A i \in 1..r : Len(X[i]) = c

\* X is m x k and Y is k x n for some m, k, n
Conformable(X, Y) ==
    /\ IsMat(X, Len(X), Len(Y))
    /\ IsMat(Y, Len(Y), Len(Y[1]))

RECURSIVE SumProd(_, _, _, _, _)
\* the sum of X[i][l] * Y[l][j] for l = 1..k
SumProd(X, Y, i, j, k) ==
    IF k = 0 THEN 0 ELSE SumProd(X, Y, i, j, k - 1) + X[i][k].v * Y[k][j].v

\* row i of X times column j of Y, for every i and j
RowsByColumns(X, Y) ==
    [i \in 1..Len(X) |-> [j \in 1..Len(Y[1]) |-> N(SumProd(X, Y, i, j, Len(Y)))]]

\* C13: mul(B)(A) is concat(A, B), the argument passed second being the left
\* operand, and for conformable integer matrices its entry (i, j) is row i of
\* A times column j of B; mul([[1,2],[3,4],[5,6]])([[1,2,3],[4,5,6]]) is
\* [[22,28],[49,64]].
C13_MulIsConcat ==
    applied = "mul" =>
        LET A == operands.v[1]
            B == operands.v[2]
        IN  /\ result = Returned(concat(A, B))
            /\ Conformable(A, B) => result.value = RowsByColumns(A, B)
            /\ (A = M2 /\ B = M1) =>
                  result.value = << <<N(22), N(28)>>, <<N(49), N(64)>> >>

\* the call of the Mat test, and its opposite order gives a 3 x 3 matrix
C13_Witness ==
    /\ applied = "mul"
    /\ operands.v = <<M2, M1>>
    /\ result.value = << <<N(22), N(28)>>, <<N(49), N(64)>> >>
    /\ RowsByColumns(M1, M2) # result.value

\* C14: concat is a monoid on matrices of integers: concat(concat(A, B), C) is
\* concat(A, concat(B, C)) for conformable A, B, C; concat(identity, A) = A =
\* concat(A, identity) for every 4 x 4 matrix A; concatAll of the empty list
\* is identity.
C14_MatMonoid ==
    /\ applied = "concat3" =>
          LET A == operands.v[1]
              B == operands.v[2]
              C == operands.v[3]
          IN  (Conformable(A, B) /\ Conformable(B, C)) =>
                  /\ result.value = concat(A, concat(B, C))
                  /\ result.value = RowsByColumns(A, RowsByColumns(B, C))
    /\ applied = "concat" =>
          LET A == operands.v[1]
              B == operands.v[2]
          IN  /\ (A = identity /\ IsMat(B, 4, 4)) => result.value = B
              /\ (B = identity /\ IsMat(A, 4, 4)) => result.value = A
    /\ (applied = "concatAll" /\ operands.v = <<>>) => result.value = identity

\* three matrices that do not commute, multiplied from the left
C14_Witness ==
    /\ applied = "concat3"
    /\ operands.v = <<Mat_translate(<<N(1), N(2), N(3)>>), rotateX(N(90)), Dense>>
    /\ result.value = concat(operands.v[1], concat(operands.v[2], operands.v[3]))
    /\ result.value # concat(operands.v[2], concat(operands.v[1], operands.v[3]))
    /\ result.value # concat(operands.v[1], concat(operands.v[3], operands.v[2]))

\* C15: dot(a, b) with vectors of different lengths, and concat(X, Y) where
\* the number of columns of X differs from the number of rows of Y, abort
\* with an error: the call never returns a number or a matrix.
C15_MismatchAborts ==
    /\ (applied = "dot" /\ Len(operands.v[1]) # Len(operands.v[2])) =>
          result.k # "returned"
    /\ (applied = "concat" /\ Len(operands.v[1][1]) # Len(operands.v[2])) =>
          result.k # "returned"

\* C16: rotateX, rotateY and rotateZ are the rotation matrices about their
\* axis: applied to a row point (x, y, z, 1) each leaves the coordinate along
\* its own axis and w as they were, so rotateZ(a) maps (x, y, z, 1) to
\* (x', y', z, 1); and rotateX(0) = rotateY(0) = rotateZ(0) = identity.
C16_Rotations ==
    LET a == operands.v[1]
        pt == operands.v[2]
        Keeps(i) == result.value.pt[i] = pt[i] /\ result.value.pt[4] = N(1)
    IN  /\ applied = "rotateX" => Keeps(1)
        /\ applied = "rotateY" => Keeps(2)
        /\ applied = "rotateZ" => Keeps(3)
        /\ (applied \in {"rotateX", "rotateY", "rotateZ"} /\ a = N(0)) =>
              result.value.mat = identity

\* C26: transpose swaps rows and columns of a rectangular non-empty matrix:
\* transpose(M)[j][i] = M[i][j], an r x c input gives a c x r output,
\* transpose([[1,2],[3,4],[5,6]]) = [[1,3,5],[2,4,6]], and transposing twice
\* gives M back; row(n)(M) is the vector of the n-th components of M's rows,
\* row(1)([[1,2,3,4],[5,6,7,8],[9,10,11,12]]) = [2,6,10].
C26_TransposeRow ==
    /\ applied = "transpose" =>
          LET M == operands.v[1]
              r == Len(M)
              c == Len(M[1])
              t == result.value
          IN  /\ IsMat(t, c, r)
              /\ \A i \in 1..r : \A j \in 1..c : t[j][i] = M[i][j]
              /\ transpose(t) = M
              /\ M = M1 => t = << <<N(1), N(3), N(5)>>, <<N(2), N(4), N(6)>> >>
    /\ applied = "row" =>
          LET n == operands.v[1]
              M == operands.v[2]
          IN  /\ n < Len(M[1]) =>
                    /\ Len(result.value) = Len(M)
                    /\ \A i \in 1..Len(M) : result.value[i] = M[i][n + 1]
              /\ (n = 1 /\ M = M34) => result.value = <<N(2), N(6), N(10)>>

\* the 3 x 4 matrix transposed: 4 rows of 3, the second one [2, 6, 10]
C26_Witness ==
    /\ applied = "transpose"
    /\ operands.v = <<M34>>
    /\ IsMat(result.value, 4, 3)
    /\ result.value[2] = <<N(2), N(6), N(10)>>
    /\ result.value[2] = row(1, M34)

-----------------------------------------------------------------------------
(* Properties of the Drawing and style monoids (SpecMonoid) *)

\* the children of a Many, any other drawing as the one item
Items(d) == IF d._tag = "Many" THEN d.drawings ELSE <<d>>

\* C17: monoidDrawing.concat(x, y) is always a Many whose children are the
\* items of x followed by the items of y, the items of Many(cs) being cs and
\* those of any other drawing d being [d]; a child that is itself a Many is
\* kept as one child.
C17_ConcatFlattens ==
    applied = "monoidDrawing.concat" =>
        LET x == operands.v[1]
            y == operands.v[2]
            r == result.value
        IN  /\ r._tag = "Many"
            /\ r = many(Items(x) \o Items(y))
            /\ Len(r.drawings) = Len(Items(x)) + Len(Items(y))
            /\ (x._tag # "Many" /\ y._tag # "Many") => r = many(<<x, y>>)
            /\ (x._tag # "Many" /\ y._tag = "Many") => r.drawings = <<x>> \o y.drawings
            /\ (x._tag = "Many" /\ y._tag # "Many") => r.drawings = Append(x.drawings, y)

\* a Fill before a Many whose first child is a Many of two leaves: that child
\* stays whole, the result has three children
C17_Witness ==
    /\ applied = "monoidDrawing.concat"
    /\ LET x == operands.v[1]
           y == operands.v[2]
       IN  /\ x._tag = "Fill" /\ y._tag = "Many" /\ Len(y.drawings) = 2
           /\ y.drawings[1]._tag = "Many" /\ Len(y.drawings[1].drawings) = 2
           /\ result.value = many(<<x, y.drawings[1], y.drawings[2]>>)

\* C18: Many([]) is the identity of the Drawing monoid: for every drawing x of
\* any variant, monoidDrawing.concat(Many([]), x) = x and
\* monoidDrawing.concat(x, Many([])) = x, as Drawing values.
C18_DrawingIdentity ==
    applied = "monoidDrawing.concat" =>
        LET x == operands.v[1]
            y == operands.v[2]
        IN  /\ x = monoidDrawing_empty => result.value = y
            /\ y = monoidDrawing_empty => result.value = x

\* C19: monoidDrawing.concat is associative: concat(concat(x, y), z) and
\* concat(x, concat(y, z)) are the same Drawing value, for drawings of any
\* variants.
C19_DrawingAssociative ==
    applied = "monoidDrawing.concat3" =>
        LET x == operands.v[1]
            y == operands.v[2]
            z == operands.v[3]
        IN  /\ result.value = monoidDrawing_concat(x, monoidDrawing_concat(y, z))
            /\ result.value = many(Items(x) \o Items(y) \o Items(z))

\* a Many, a Translate and a Rotate: both nestings give the three children
C19_Witness ==
    /\ applied = "monoidDrawing.concat3"
    /\ LET x == operands.v[1]
           y == operands.v[2]
           z == operands.v[3]
       IN  /\ x._tag = "Many" /\ Len(x.drawings) = 1
           /\ y._tag = "Translate" /\ z._tag = "Rotate"
           /\ result.value = many(<<x.drawings[1], y, z>>)
           /\ monoidDrawing_concat(x, monoidDrawing_concat(y, z)) = result.value

\* the left option when it is present, else the right one
FirstPresent(a, b) == IF a._tag = "Some" THEN a ELSE b

\* C20: monoidFillStyle and monoidOutlineStyle combine field by field, the
\* first present value winning: each field of the result (color; and
\* lineWidth for an OutlineStyle) is the left operand's when present, else the
\* right operand's, each field chosen on its own; the all-absent style is the
\* identity and the combination is associative.
C20_StyleFirstWins ==
    LET x == operands.v[1]
        y == operands.v[2]
        z == operands.v[3]
        r == result.value
    IN  /\ applied = "monoidFillStyle.concat" =>
              /\ r = FillStyle(FirstPresent(x.color, y.color))
              /\ x = monoidFillStyle_empty => r = y
              /\ y = monoidFillStyle_empty => r = x
        /\ applied = "monoidOutlineStyle.concat" =>
              /\ r = OutlineStyle(FirstPresent(x.color, y.color),
                                  FirstPresent(x.lineWidth, y.lineWidth))
              /\ x = monoidOutlineStyle_empty => r = y
              /\ y = monoidOutlineStyle_empty => r = x
        /\ applied = "monoidFillStyle.concat3" =>
              /\ r = monoidFillStyle_concat(x, monoidFillStyle_concat(y, z))
              /\ r.color = FirstPresent(x.color, FirstPresent(y.color, z.color))
        /\ applied = "monoidOutlineStyle.concat3" =>
              /\ r = monoidOutlineStyle_concat(x, monoidOutlineStyle_concat(y, z))
              /\ r.color = FirstPresent(x.color, FirstPresent(y.color, z.color))
              /\ r.lineWidth =
                    FirstPresent(x.lineWidth, FirstPresent(y.lineWidth, z.lineWidth))

\* the colour comes from the left operand, the line width from the right one
C20_Witness ==
    /\ applied = "monoidOutlineStyle.concat"
    /\ operands.v = <<OutlineStyle(some(RED), none), OutlineStyle(some(BLUE), some(N(2)))>>
    /\ result.value = OutlineStyle(some(RED), some(N(2)))

-----------------------------------------------------------------------------
(* Properties of Shape (SpecShape) *)

\* C21: for every finite sequence of points, the empty one included,
\* path(F)(seq) is a Path with closed = false and closed(F)(seq) a Path with
\* closed = true, and in both the points are the sequence's points in fold
\* order.
C21_PathFolds ==
    /\ applied = "path" => result.value = Path(FALSE, operands.v)
    /\ applied = "closed" => result.value = Path(TRUE, operands.v)

\* C24: for every Path shape with closed = true, whatever its points, the
\* result of renderShape holds no single-point subpath of the kind closePath
\* appends: every subpath of the result has at least 2 points.
C24_NoPhantomSubpath ==
    (applied = "renderShape" /\ operands.v._tag = "Path" /\ operands.v.closed) =>
        \A i \in 1..Len(result.value) : Len(result.value[i]) >= 2

\* a closed Path of three distinct finite points: closePath appended [start],
\* renderShape holds the one closed subpath of four points
C24_Witness ==
    /\ applied = "renderShape" /\ operands.v._tag = "Path" /\ operands.v.closed
    /\ Len(operands.v.points) = 3
    /\ Len(closePath(<<operands.v.points>>)) = 2
    /\ result.value = <<Append(operands.v.points, operands.v.points[1])>>

-----------------------------------------------------------------------------
(* Properties of Path3D on the heap (SpecHeap) *)

\* C22: Path3D is persistent: after any sequence of moveTo, lineTo and
\* closePath calls, every value passed to or returned by an earlier call has
\* the subpaths and points it had when it was produced; and what a call
\* returns is the value of the builder function at its argument.
C22_Persistent ==
    /\ \A i \in 1..Len(made) : Deref(heap, made[i].ref) = made[i].snap
    /\ made[Len(made)].snap = path
    /\ Len(made) > 1 => made[made[Len(made)].arg].snap = prev

\* two lineTo calls on the same value: both results hold its first point in
\* arrays of their own, and the value is as it was
C22_Witness ==
    /\ Len(made) = 4
    /\ made[2].op = "moveTo" /\ made[3].op = "lineTo" /\ made[4].op = "lineTo"
    /\ made[3].arg = 2 /\ made[4].arg = 2
    /\ made[3].point # made[4].point
    /\ Len(made[3].snap) = Len(made[2].snap) /\ Len(made[4].snap) = Len(made[2].snap)
    /\ Len(Deref(heap, made[3].ref)[Len(made[3].snap)]) = 2
    /\ Len(Deref(heap, made[4].ref)[Len(made[4].snap)]) = 2
    /\ Deref(heap, made[2].ref) = made[2].snap

\* value number i was made by a closePath that closed a subpath
ClosedBy(i) ==
    /\ i > 1 /\ made[i].op = "closePath"
    /\ made[i].snap # made[made[i].arg].snap

\* the start point of the subpath that the closePath of value i closed
StartOf(i) == made[made[i].arg].snap[Len(made[made[i].arg].snap)][1]

\* C25: after a closePath that closes a subpath with start point s, drawing
\* continues from the closing point: a following lineTo(q) with finite q
\* gives a last subpath [s, q] and leaves the closed subpath before it, which
\* ends in s, as it was; a following moveTo(q) leaves the subpath [s] in place
\* and appends [q].
C25_ContinueAfterClose ==
    \A i \in 2..Len(made) :
        LET m == made[i]
            c == made[m.arg]
            n == Len(c.snap)
        IN  (ClosedBy(m.arg) /\ isPointFinite(m.point)) =>
                /\ m.op = "lineTo" =>
                      /\ Len(m.snap) = n
                      /\ m.snap[n] = <<StartOf(m.arg), m.point>>
                      /\ \A j \in 1..(n - 1) : m.snap[j] = c.snap[j]
                      /\ m.snap[n - 1][Len(m.snap[n - 1])] = StartOf(m.arg)
                /\ m.op = "moveTo" =>
                      /\ m.snap = Append(c.snap, <<m.point>>)
                      /\ m.snap[n] = <<StartOf(m.arg)>>

\* moveTo, lineTo, closePath, lineTo from the empty path: [[a, b, a], [a, q]]
C25_Witness ==
    /\ seed = <<>>
    /\ Len(made) = 5
    /\ made[2].op = "moveTo" /\ made[3].op = "lineTo" /\ made[3].arg = 2
    /\ ClosedBy(4) /\ made[4].arg = 3
    /\ made[5].op = "lineTo" /\ made[5].arg = 4 /\ isPointFinite(made[5].point)
    /\ made[5].snap = << <<made[2].point, made[3].point, made[2].point>>,
                         <<made[2].point, made[5].point>> >>

-----------------------------------------------------------------------------
(* Properties of render with a throwing Renderer (SpecThrows) *)

\* C23: when a Renderer command fails during render, the failure reaches the
\* caller as thrown and the render stops: the failing command is the last
\* one the Renderer receives, no sibling is rendered and no restore is issued
\* for a save already made.
C23_FailureStops ==
    error.k = "thrown" =>
        /\ error.e \in RendererErrors
        /\ stack = <<>>
        /\ Len(cmds) = error.at /\ cmds[error.at] = error.by
        /\ IsPrefix(cmds, Denote(drawing, identity))
        /\ Len(leaves) = Count(cmds, "save")
        /\ error.by.op \notin {"save", "restore"} =>
              /\ Count(cmds, "restore") = Count(cmds, "save") - 1
              /\ saved # <<>>

\* two leaves; the first one's fill throws after its save: the render is
\* over, the second leaf was never begun and the save has no restore
C23_Witness ==
    /\ error.k = "thrown" /\ error.by.op = "fill"
    /\ drawing._tag = "Many" /\ Len(drawing.drawings) = 2
    /\ stack = <<>>
    /\ Len(leaves) = 1
    /\ Count(cmds, "save") = 1 /\ Count(cmds, "restore") = 0
    /\ cmds[Len(cmds)].op = "fill"

====
